---- MODULE Spec2Model ----
(***************************************************************************)
(* The x402 payment gateway of backend/app: the paywall middleware         *)
(* (app/x402/middleware.py), its value types (app/x402/types.py) and the   *)
(* facilitator service it drives (app/facilitator/service.py).             *)
(*                                                                         *)
(* Python strings are modelled as sequences of tokens: a path is the       *)
(* sequence of its "/" separators and segments, a message is the sequence  *)
(* of its literal parts and interpolated values, a decimal string is the   *)
(* sequence of its characters.  An optional value (None, a missing dict    *)
(* key, a missing header) is the empty tuple, a present value v is <<v>>.  *)
(***************************************************************************)
EXTENDS Integers, Sequences, FiniteSets, TLC

None == <<>>
Some(x) == <<x>>
IsSome(o) == o # <<>>
Get(o) == o[1]

(***************************************************************************)
(* String helpers (str.endswith, the `in` operator, str.rstrip,            *)
(* str.startswith, str.split) on token sequences.                          *)
(***************************************************************************)
EndsWith(s, suffix) ==
    /\ Len(suffix) <= Len(s)
    /\ SubSeq(s, Len(s) - Len(suffix) + 1, Len(s)) = suffix

Contains(s, part) ==
    \E i \in 0..(Len(s) - Len(part)) : SubSeq(s, i + 1, i + Len(part)) = part

StartsWith(s, prefix) ==
    /\ Len(prefix) <= Len(s)
    /\ SubSeq(s, 1, Len(prefix)) = prefix

RECURSIVE RStrip(_, _)
RStrip(s, ch) ==
    IF s # <<>> /\ s[Len(s)] = ch THEN RStrip(SubSeq(s, 1, Len(s) - 1), ch) ELSE s

\* s.split(sep)[0]: the part of s before the first occurrence of sep.
RECURSIVE SplitFirst(_, _)
SplitFirst(s, sep) ==
    IF s = <<>> \/ s[1] = sep THEN <<>>
    ELSE <<s[1]>> \o SplitFirst(Tail(s), sep)

\* str.upper and str.lower on the method and scheme words the model uses.
Upper(w) ==
    CASE w = "post" -> "POST"
      [] w = "get" -> "GET"
      [] w = "exact" -> "EXACT"
      [] OTHER -> w

Lower(w) ==
    CASE w = "POST" -> "post"
      [] w = "GET" -> "get"
      [] w = "EXACT" -> "exact"
      [] w = "0xA11CE" -> "0xa11ce"
      [] w = "0xB0B" -> "0xb0b"
      [] OTHER -> w

(***************************************************************************)
(* app/x402/types.py                                                       *)
(***************************************************************************)
\* RouteConfig.__init__ with its defaults; `extra or {}` keeps an absent
\* extra empty.
DefaultMimeType == <<"application/json">>
DefaultMaxTimeoutSeconds == 600

RouteConfig(network, asset, max_amount_required, description) ==
    [ network |-> network,
      asset |-> asset,
      max_amount_required |-> max_amount_required,
      description |-> description,
      mime_type |-> DefaultMimeType,
      max_timeout_seconds |-> DefaultMaxTimeoutSeconds,
      output_schema |-> None,
      extra |-> None ]

\* PaymentRequirements.to_dict: the camelCase dict; outputSchema and extra
\* are present only when set.  isObj tells a dict from the other JSON values
\* a caller of the service may pass for it.
ToDict(r) ==
    [ isObj |-> TRUE,
      scheme |-> r.scheme,
      network |-> r.network,
      maxAmountRequired |-> r.max_amount_required,
      resource |-> r.resource,
      description |-> r.description,
      mimeType |-> r.mime_type,
      payTo |-> r.pay_to,
      maxTimeoutSeconds |-> r.max_timeout_seconds,
      asset |-> r.asset,
      outputSchema |-> r.output_schema,
      extra |-> r.extra ]

(***************************************************************************)
(* app/x402/middleware.py: pure helpers                                    *)
(***************************************************************************)
\* request.headers.get(name, default)
HeaderOr(headers, name, default) ==
    IF IsSome(headers[name]) THEN Get(headers[name]) ELSE default

\* Mutant: the resource URL keeps what follows a "?" of the path.
absolute_resource_url_unsplit(request) ==
    HeaderOr(request.headers, "x-forwarded-proto", <<"http">>) \o <<"://">>
        \o HeaderOr(request.headers, "host", <<"localhost">>) \o request.path

\* absolute_resource_url
absolute_resource_url(request) ==
    LET scheme == HeaderOr(request.headers, "x-forwarded-proto", <<"http">>)
        host == HeaderOr(request.headers, "host", <<"localhost">>)
        path == SplitFirst(request.path, "?")
    IN  scheme \o <<"://">> \o host \o path

\* to_payment_requirements
to_payment_requirements(resource_url, pay_to, config) ==
    [ scheme |-> "exact",
      network |-> config.network,
      max_amount_required |-> config.max_amount_required,
      resource |-> resource_url,
      description |-> config.description,
      mime_type |-> config.mime_type,
      pay_to |-> pay_to,
      max_timeout_seconds |-> config.max_timeout_seconds,
      asset |-> config.asset,
      output_schema |-> config.output_schema,
      extra |-> config.extra ]

\* X402PaywallMiddleware.__init__: `skip_paths or [defaults]`.
DefaultSkipPaths ==
    << <<"/", ".well-known", "/", "agent.json">>,
       <<"/", ".well-known", "/", "agent-card.json">> >>

InitSkipPaths(skip_paths) ==
    IF skip_paths # <<>> THEN skip_paths ELSE DefaultSkipPaths

\* Mutant: only a path equal to a skip entry is skipped.
should_skip_payment_exact(skips, path) ==
    \E i \in 1..Len(skips) : path = skips[i]

\* X402PaywallMiddleware._should_skip_payment
should_skip_payment(skips, path) ==
    \E i \in 1..Len(skips) :
        EndsWith(path, skips[i]) \/ Contains(path, skips[i])

\* A key of the routes map, "METHOD /path", as its two parts.
RouteKey(method, path) == [method |-> method, path |-> path]

WildcardKey == RouteKey("POST", <<"/">>)

\* The path normalisation of _get_route_config.
NormalizePath(path) ==
    LET stripped == RStrip(path, "/")
        nonEmpty == IF stripped = <<>> THEN <<"/">> ELSE stripped
    IN  IF ~StartsWith(nonEmpty, <<"/">>) THEN <<"/">> \o nonEmpty ELSE nonEmpty

\* Mutant: the catch-all route applies to every method.
get_route_config_any_method(routeMap, method, path) ==
    LET route_key == RouteKey(Upper(method), NormalizePath(path))
        route_key_slash == RouteKey(Upper(method), NormalizePath(path) \o <<"/">>)
    IN  IF route_key \in DOMAIN routeMap THEN Some(routeMap[route_key])
        ELSE IF route_key_slash \in DOMAIN routeMap THEN Some(routeMap[route_key_slash])
        ELSE IF WildcardKey \in DOMAIN routeMap THEN Some(routeMap[WildcardKey])
        ELSE None

\* Mutant: the key with the trailing slash is tried before the exact key.
get_route_config_slash_first(routeMap, method, path) ==
    LET route_key == RouteKey(Upper(method), NormalizePath(path))
        route_key_slash == RouteKey(Upper(method), NormalizePath(path) \o <<"/">>)
    IN  IF route_key_slash \in DOMAIN routeMap THEN Some(routeMap[route_key_slash])
        ELSE IF route_key \in DOMAIN routeMap THEN Some(routeMap[route_key])
        ELSE IF Upper(method) = "POST" /\ WildcardKey \in DOMAIN routeMap
             THEN Some(routeMap[WildcardKey])
        ELSE None

\* X402PaywallMiddleware._get_route_config: Some(config) or None.
get_route_config(routeMap, method, path) ==
    LET normalized_path == NormalizePath(path)
        route_key == RouteKey(Upper(method), normalized_path)
        route_key_slash == RouteKey(Upper(method), normalized_path \o <<"/">>)
    IN  IF route_key \in DOMAIN routeMap THEN Some(routeMap[route_key])
        ELSE IF route_key_slash \in DOMAIN routeMap THEN Some(routeMap[route_key_slash])
        ELSE IF Upper(method) = "POST" /\ WildcardKey \in DOMAIN routeMap
             THEN Some(routeMap[WildcardKey])
        ELSE None

(***************************************************************************)
(* app/facilitator/service.py: verification                                *)
(*                                                                         *)
(* A transaction blob (the value of the `transaction` field) is            *)
(*   [kind, tx]: kind "empty" is the empty string, "nonstring" a JSON      *)
(*   value that is not a string, "badb64" a string base64.b64decode        *)
(*   rejects, "bytes" a string that decodes to bytes; tx describes what    *)
(*   RawTransaction.deserialize makes of those bytes.                      *)
(***************************************************************************)
\* int(s) on a decimal string: [ok, value]; ok = FALSE is a ValueError.
DigitValue(c) ==
    CASE c = "0" -> 0 [] c = "1" -> 1 [] c = "2" -> 2 [] c = "3" -> 3
      [] c = "4" -> 4 [] c = "5" -> 5 [] c = "6" -> 6 [] c = "7" -> 7
      [] c = "8" -> 8 [] c = "9" -> 9 [] OTHER -> -1

RECURSIVE DigitsValue(_)
DigitsValue(s) ==
    IF s = <<>> THEN 0
    ELSE 10 * DigitsValue(SubSeq(s, 1, Len(s) - 1)) + DigitValue(s[Len(s)])

AllDigits(s) == s # <<>> /\ \A i \in 1..Len(s) : DigitValue(s[i]) >= 0

ParseInt(s) ==
    IF AllDigits(s) THEN [ok |-> TRUE, value |-> DigitsValue(s)]
    ELSE IF s # <<>> /\ s[1] = "-" /\ AllDigits(Tail(s))
         THEN [ok |-> TRUE, value |-> 0 - DigitsValue(Tail(s))]
    ELSE [ok |-> FALSE, value |-> 0]

\* The result dicts of verification.
Valid(payer) == [isValid |-> TRUE, payer |-> Some(payer), invalidReason |-> None]
Invalid(reason) == [isValid |-> FALSE, payer |-> None, invalidReason |-> Some(reason)]

\* An entry-function argument: str(arg) is arg.text; int(arg) follows
\* `int(args[1]) if isinstance(args[1], (int, str)) else 0`.
ArgAmount(arg) ==
    IF arg.type = "int" THEN [ok |-> TRUE, value |-> arg.value]
    ELSE IF arg.type = "str" THEN ParseInt(arg.digits)
    ELSE [ok |-> TRUE, value |-> 0]

IsCoinTransfer(function_str) ==
    \/ Contains(function_str, <<"coin", "::", "transfer">>)
    \/ Contains(function_str, <<"aptos_account", "::", "transfer">>)

\* Mutant: recipient and amount are checked whatever the function is.
TransferCheckAnyFunction(tx, required_pay_to, required_amount) ==
    IF /\ tx.hasValue /\ tx.hasFunction
       /\ tx.hasArguments /\ tx.arguments # <<>> /\ Len(tx.arguments) >= 2
    THEN LET recipient == Lower(tx.arguments[1].text)
             amount == ArgAmount(tx.arguments[2])
         IN  IF ~amount.ok
             THEN Some(<<"SDK verification error: ", "invalid literal for int()">>)
             ELSE IF recipient # required_pay_to
             THEN Some(<<"Recipient mismatch: expected ", required_pay_to,
                         ", got ", recipient>>)
             ELSE IF amount.value < required_amount
             THEN Some(<<"Amount insufficient: required ", ToString(required_amount),
                         ", got ", ToString(amount.value)>>)
             ELSE None
    ELSE None

\* FacilitatorService._verify_with_aptos_sdk, lines 199-228: the check of the
\* entry-function payload; None when nothing is rejected.
TransferCheck(tx, required_pay_to, required_amount) ==
    IF /\ tx.hasValue /\ tx.hasFunction /\ IsCoinTransfer(tx.function)
       /\ tx.hasArguments /\ tx.arguments # <<>> /\ Len(tx.arguments) >= 2
    THEN LET recipient == Lower(tx.arguments[1].text)
             amount == ArgAmount(tx.arguments[2])
         IN  IF ~amount.ok
             THEN Some(<<"SDK verification error: ", "invalid literal for int()">>)
             ELSE IF recipient # required_pay_to
             THEN Some(<<"Recipient mismatch: expected ", required_pay_to,
                         ", got ", recipient>>)
             ELSE IF amount.value < required_amount
             THEN Some(<<"Amount insufficient: required ", ToString(required_amount),
                         ", got ", ToString(amount.value)>>)
             ELSE None
    ELSE None

\* Mutant: the two comparisons of the expiry check take their boundary too.
ExpiryCheckExclusive(tx, current_time, max_timeout_seconds) ==
    IF IsSome(tx.expiration)
    THEN IF Get(tx.expiration) <= current_time
         THEN Some(<<"Transaction has expired">>)
         ELSE IF Get(tx.expiration) >= current_time + max_timeout_seconds
         THEN Some(<<"Transaction expiration exceeds maximum timeout">>)
         ELSE None
    ELSE None

\* FacilitatorService._verify_with_aptos_sdk, lines 182-197: the expiry check.
ExpiryCheck(tx, current_time, max_timeout_seconds) ==
    IF IsSome(tx.expiration)
    THEN IF Get(tx.expiration) < current_time
         THEN Some(<<"Transaction has expired">>)
         ELSE IF Get(tx.expiration) > current_time + max_timeout_seconds
         THEN Some(<<"Transaction expiration exceeds maximum timeout">>)
         ELSE None
    ELSE None

\* Mutant: the entry-function payload is checked before the expiration.
verify_with_aptos_sdk_transfer_first(tx, payment_requirements, current_time) ==
    IF ~tx.deserializes
    THEN Invalid(<<"SDK verification error: ", "deserialize failed">>)
    ELSE IF ~payment_requirements.isObj
    THEN Invalid(<<"SDK verification error: ", "object has no attribute 'get'">>)
    ELSE LET required_pay_to == Lower(payment_requirements.payTo)
             required_amount == ParseInt(payment_requirements.maxAmountRequired)
             max_timeout_seconds == payment_requirements.maxTimeoutSeconds
         IN  IF ~required_amount.ok
             THEN Invalid(<<"SDK verification error: ", "invalid literal for int()">>)
             ELSE LET expiry == ExpiryCheck(tx, current_time, max_timeout_seconds)
                      transfer == TransferCheck(tx, required_pay_to, required_amount.value)
                  IN  IF IsSome(transfer) THEN Invalid(Get(transfer))
                      ELSE IF IsSome(expiry) THEN Invalid(Get(expiry))
                      ELSE Valid(tx.sender)

\* FacilitatorService._verify_with_aptos_sdk
verify_with_aptos_sdk(tx, payment_requirements, current_time) ==
    IF ~tx.deserializes
    THEN Invalid(<<"SDK verification error: ", "deserialize failed">>)
    ELSE IF ~payment_requirements.isObj
    THEN Invalid(<<"SDK verification error: ", "object has no attribute 'get'">>)
    ELSE LET required_pay_to == Lower(payment_requirements.payTo)
             required_amount == ParseInt(payment_requirements.maxAmountRequired)
             max_timeout_seconds == payment_requirements.maxTimeoutSeconds
         IN  IF ~required_amount.ok
             THEN Invalid(<<"SDK verification error: ", "invalid literal for int()">>)
             ELSE LET expiry == ExpiryCheck(tx, current_time, max_timeout_seconds)
                      transfer == TransferCheck(tx, required_pay_to, required_amount.value)
                  IN  IF IsSome(expiry) THEN Invalid(Get(expiry))
                      ELSE IF IsSome(transfer) THEN Invalid(Get(transfer))
                      ELSE Valid(tx.sender)

\* Mutant: the answer's body is read whatever its status code.
simulate_transaction_any_status(rpc) ==
    CASE rpc.kind \in {"result", "status"} ->
             [success |-> TRUE, result |-> rpc.result, error |-> None]
      [] rpc.kind = "error" -> [success |-> FALSE, result |-> rpc.result,
                                error |-> Some(IF IsSome(rpc.error) THEN Get(rpc.error)
                                               ELSE <<"Unknown error">>)]
      [] OTHER -> [success |-> FALSE, result |-> rpc.result, error |-> Some(rpc.cause)]

\* FacilitatorService._simulate_transaction: the dict it makes of the RPC
\* node's answer.  rpc.kind is "transport" (requests.post raised), "status"
\* (a non-200 answer), "result" (200, the JSON has a result) or "error"
\* (200, the JSON has no result).
simulate_transaction(rpc) ==
    CASE rpc.kind = "result" -> [success |-> TRUE, result |-> rpc.result, error |-> None]
      [] rpc.kind = "error" -> [success |-> FALSE, result |-> rpc.result,
                                error |-> Some(IF IsSome(rpc.error) THEN Get(rpc.error)
                                               ELSE <<"Unknown error">>)]
      [] rpc.kind = "status" -> [success |-> FALSE, result |-> rpc.result,
                                 error |-> Some(<<"HTTP ", rpc.status>>)]
      [] OTHER -> [success |-> FALSE, result |-> rpc.result, error |-> Some(rpc.cause)]

\* FacilitatorService._verify_with_rpc.  result.isObj = FALSE is a result
\* that is no JSON object: result.get raises, which the caller catches.
verify_with_rpc(rpc) ==
    LET simulate_response == simulate_transaction(rpc)
        result == simulate_response.result
        sender == IF IsSome(result.sender) THEN result.sender ELSE result.txSender
    IN  IF ~simulate_response.success
        THEN Invalid(IF IsSome(simulate_response.error)
                     THEN Get(simulate_response.error)
                     ELSE <<"Transaction simulation failed">>)
        ELSE IF ~result.isObj
        THEN Invalid(<<"Verification error: ", "object has no attribute 'get'">>)
        ELSE IF ~IsSome(sender)
        THEN Invalid(<<"Could not extract sender from transaction">>)
        ELSE Valid(Get(sender))

\* Mutant: the fallback path decodes the transaction too and compares its
\* recipient, amount and expiration with the requirements.
verify_transaction_on_chain_comparing(blob, payment_requirements, sdk, current_time, rpc) ==
    IF blob.kind # "bytes"
    THEN Invalid(<<"Verification error: ",
                   IF blob.kind = "nonstring" THEN "argument should be a bytes-like object"
                   ELSE "Incorrect padding">>)
    ELSE IF sdk \/ verify_with_rpc(rpc).isValid
    THEN verify_with_aptos_sdk(blob.tx, payment_requirements, current_time)
    ELSE verify_with_rpc(rpc)

\* FacilitatorService.verify_transaction_on_chain
verify_transaction_on_chain(blob, payment_requirements, sdk, current_time, rpc) ==
    IF blob.kind # "bytes"
    THEN Invalid(<<"Verification error: ",
                   IF blob.kind = "nonstring" THEN "argument should be a bytes-like object"
                   ELSE "Incorrect padding">>)
    ELSE IF sdk THEN verify_with_aptos_sdk(blob.tx, payment_requirements, current_time)
    ELSE verify_with_rpc(rpc)

\* Python truthiness of an optional blob: a missing key, None and "" are falsy.
TruthyBlob(field) == IsSome(field) /\ Get(field).kind # "empty"

\* Mutant: the second field is read only when the first key is missing
\* (dict.get with a default for `or`).
OrElseIfMissing(a, b) == IF IsSome(a) THEN a ELSE b

\* `a or b` on two optional fields.
OrElse(a, b) == IF TruthyBlob(a) THEN a ELSE b

\* Mutant: a payload without a signature is rejected.
verify_payment_requiring_signature(payment_payload, payment_requirements, sdk, current_time, rpc) ==
    LET transaction_bcs ==
            OrElse(payment_payload.transaction, payment_payload.transactionBcsBase64)
        signature_bcs ==
            OrElse(payment_payload.signature, payment_payload.signatureBcsBase64)
    IN  IF ~payment_payload.isObj
        THEN Invalid(<<"Verification failed: ", "object has no attribute 'get'">>)
        ELSE IF ~TruthyBlob(transaction_bcs)
        THEN Invalid(<<"Transaction not found in payment payload">>)
        ELSE IF ~TruthyBlob(signature_bcs)
        THEN Invalid(<<"Signature not found in payment payload">>)
        ELSE verify_transaction_on_chain(Get(transaction_bcs), payment_requirements,
                                         sdk, current_time, rpc)

\* FacilitatorService.verify_payment
verify_payment(payment_payload, payment_requirements, sdk, current_time, rpc) ==
    LET transaction_bcs ==
            OrElse(payment_payload.transaction, payment_payload.transactionBcsBase64)
    IN  IF ~payment_payload.isObj
        THEN Invalid(<<"Verification failed: ", "object has no attribute 'get'">>)
        ELSE IF ~TruthyBlob(transaction_bcs)
        THEN Invalid(<<"Transaction not found in payment payload">>)
        ELSE verify_transaction_on_chain(Get(transaction_bcs), payment_requirements,
                                         sdk, current_time, rpc)

\* What raises inside the try block of verify_payment, if anything: the
\* payload's .get (lines 328-333).  verify_transaction_on_chain catches
\* what is raised below it.
verify_payment_raises(payment_payload) ==
    IF ~payment_payload.isObj THEN Some("AttributeError") ELSE None

\* Mutant: verify_payment catches the errors of decoding only.
VerifyExceptClausesValueError == {"ValueError"}

\* The except clause of verify_payment, line 343.
VerifyExceptClauses == {"Exception"}

\* The exception that leaves verify_payment, if any.
verify_payment_escapes(payment_payload) ==
    LET exception == verify_payment_raises(payment_payload)
    IN  IF /\ IsSome(exception)
           /\ ~\E clause \in VerifyExceptClauses :
                  clause = "Exception" \/ clause = Get(exception)
        THEN exception
        ELSE None

(***************************************************************************)
(* app/facilitator/service.py: settlement                                  *)
(*                                                                         *)
(* The remote facilitator's answer to POST {facilitator_url}/settle is     *)
(*   [kind, status, json, body, text, cause]: kind "transport" is a        *)
(*   requests exception (timeout, connection refused) with text `cause`;   *)
(*   kind "answer" is an HTTP answer with its status, whether its body     *)
(*   parses as JSON (json), the parsed body, and the raw text.  A parsed   *)
(*   body is [isObj, success, error, message, txHash, network].            *)
(***************************************************************************)
SettleFailure(error) ==
    [ isObj |-> TRUE, success |-> FALSE, error |-> Some(error), message |-> None,
      txHash |-> None, network |-> None ]

\* response.text[:500]: the text itself when it has no more than 500
\* characters, else its prefix of that length.
ErrorBodyLimit == 500

TextPrefix(text, length) ==
    IF length <= ErrorBodyLimit THEN text ELSE <<"[:500]">> \o text

\* Mutant: the message of the remote body is preferred to its error.
NonOkErrorMessageMessageFirst(remote) ==
    IF remote.json /\ remote.body.isObj
    THEN IF IsSome(remote.body.message) THEN Get(remote.body.message)
         ELSE IF IsSome(remote.body.error) THEN Get(remote.body.error)
         ELSE <<"Unknown error">>
    ELSE <<"HTTP ", remote.status, ": ">> \o TextPrefix(remote.text, remote.textLength)

\* FacilitatorService.settle_payment, lines 398-404: the error message of a
\* non-200 answer.
NonOkErrorMessage(remote) ==
    IF remote.json /\ remote.body.isObj
    THEN IF IsSome(remote.body.error) THEN Get(remote.body.error)
         ELSE IF IsSome(remote.body.message) THEN Get(remote.body.message)
         ELSE <<"Unknown error">>
    ELSE <<"HTTP ", remote.status, ": ">> \o TextPrefix(remote.text, remote.textLength)

\* Mutant: a 200 answer is a settlement; its body is returned marked as a
\* success.
settle_payment_ok_is_success(remote) ==
    IF remote.kind = "transport"
    THEN SettleFailure(<<"Facilitator request failed: ">> \o remote.cause)
    ELSE IF remote.status = "200"
    THEN IF remote.json
         THEN IF remote.body.isObj THEN [remote.body EXCEPT !.success = TRUE]
              ELSE remote.body
         ELSE IF remote.jsonErrorIsRequestException
         THEN SettleFailure(<<"Facilitator request failed: ", "Expecting value">>)
         ELSE SettleFailure(<<"Settlement failed: ", "Expecting value">>)
    ELSE SettleFailure(NonOkErrorMessage(remote))

\* Mutant: settle_payment catches connection errors only, and a timeout
\* comes back as something that is no result dict.
settle_payment_timeout_uncaught(remote) ==
    IF remote.kind = "transport"
    THEN IF remote.cause = <<"Read timed out">>
         THEN [SettleFailure(remote.cause) EXCEPT !.isObj = FALSE]
         ELSE SettleFailure(<<"Facilitator request failed: ">> \o remote.cause)
    ELSE IF remote.status = "200"
    THEN IF remote.json THEN remote.body
         ELSE IF remote.jsonErrorIsRequestException
         THEN SettleFailure(<<"Facilitator request failed: ", "Expecting value">>)
         ELSE SettleFailure(<<"Settlement failed: ", "Expecting value">>)
    ELSE SettleFailure(NonOkErrorMessage(remote))

\* FacilitatorService.settle_payment: the result of one call, given the
\* remote's answer.  response.json() of an unparsable 200 body raises a
\* JSON decode error, which is a RequestException or a plain ValueError
\* depending on the requests version (remote.jsonErrorIsRequestException).
settle_payment(remote) ==
    IF remote.kind = "transport"
    THEN SettleFailure(<<"Facilitator request failed: ">> \o remote.cause)
    ELSE IF remote.status = "200"
    THEN IF remote.json THEN remote.body
         ELSE IF remote.jsonErrorIsRequestException
         THEN SettleFailure(<<"Facilitator request failed: ", "Expecting value">>)
         ELSE SettleFailure(<<"Settlement failed: ", "Expecting value">>)
    ELSE SettleFailure(NonOkErrorMessage(remote))

\* What raises inside the try block of settle_payment, if anything: the
\* reading of the payload's keys (line 380), requests.post (line 384) or
\* response.json() of a 200 answer (line 395).
settle_payment_raises(payment_payload, remote) ==
    IF ~payment_payload.isObj THEN Some("AttributeError")
    ELSE IF remote.kind = "transport" THEN Some("RequestException")
    ELSE IF remote.status = "200" /\ ~remote.json
    THEN Some(IF remote.jsonErrorIsRequestException THEN "RequestException"
              ELSE "ValueError")
    ELSE None

\* Mutant: settle_payment without its last except clause.
SettleExceptClausesRequestsOnly == {"RequestException"}

\* The except clauses of settle_payment, lines 410-419.
SettleExceptClauses == {"RequestException", "Exception"}

Catches(clause, exception) == clause = "Exception" \/ clause = exception

\* The exception that leaves settle_payment, if any.
settle_payment_escapes(payment_payload, remote) ==
    LET exception == settle_payment_raises(payment_payload, remote)
    IN  IF /\ IsSome(exception)
           /\ ~\E clause \in SettleExceptClauses : Catches(clause, Get(exception))
        THEN exception
        ELSE None

\* FacilitatorService.settle_payment on any payload: a payload that is no
\* dict fails at line 380, before the POST.
settle_payment_call(payment_payload, remote) ==
    IF ~payment_payload.isObj
    THEN SettleFailure(<<"Settlement failed: ", "object has no attribute 'keys'">>)
    ELSE settle_payment(remote)

(***************************************************************************)
(* app/facilitator/service.py: the network calls of the service            *)
(***************************************************************************)
\* The timeouts of the two requests.post calls.
SimulateTimeout == 10
SettleTimeout == 30

\* A requests.post call, with the answer it got.
Post(to, url, timeout, answer) ==
    [to |-> to, method |-> "POST", url |-> url, timeout |-> timeout, answer |-> answer]

\* The network calls of one verify_payment call: the simulate call of
\* _simulate_transaction, which only the fallback path makes, once the
\* transaction string has decoded to bytes.
verify_payment_posts(payment_payload, sdk, url, rpc) ==
    LET transaction_bcs ==
            OrElse(payment_payload.transaction, payment_payload.transactionBcsBase64)
    IN  IF /\ payment_payload.isObj
           /\ TruthyBlob(transaction_bcs)
           /\ Get(transaction_bcs).kind = "bytes"
           /\ ~sdk
        THEN <<Post("rpc", url, SimulateTimeout, rpc)>>
        ELSE <<>>

\* The network calls of one settle_payment call: the POST of line 384.
\* Lines 380-381 read the keys of the payload before it, so a payload that
\* is no dict raises before anything is sent.
settle_payment_posts(payment_payload, url, remote) ==
    IF payment_payload.isObj
    THEN <<Post("facilitator", url \o <<"/settle">>, SettleTimeout, remote)>>
    ELSE <<>>

(***************************************************************************)
(* app/x402/middleware.py: header decoding and responses                   *)
(*                                                                         *)
(* A header value is [enc, doc]: enc "empty" is the empty string,          *)
(* "not_base64" a string base64.b64decode rejects, "not_utf8" base64 of    *)
(* bytes that are no UTF-8, "not_json" base64 of text that is no JSON,     *)
(* "json" base64 of the JSON document doc.                                 *)
(***************************************************************************)
\* X402PaywallMiddleware._decode_payment_header: [ok, value, error]; ok =
\* FALSE is the ValueError it raises, with its message.
DecodeCause(enc) ==
    CASE enc = "not_base64" -> "Incorrect padding"
      [] enc = "not_utf8" -> "'utf-8' codec can't decode byte"
      [] OTHER -> "Expecting value"

\* Mutant: text that is no JSON is passed on instead of raising.
decode_payment_header_lenient(payment_header) ==
    IF payment_header.enc \in {"json", "not_json"}
    THEN [ok |-> TRUE, value |-> payment_header.doc, error |-> <<>>]
    ELSE [ok |-> FALSE, value |-> payment_header.doc,
          error |-> <<"Failed to decode payment header: ", DecodeCause(payment_header.enc)>>]

decode_payment_header(payment_header) ==
    IF payment_header.enc = "json"
    THEN [ok |-> TRUE, value |-> payment_header.doc, error |-> <<>>]
    ELSE [ok |-> FALSE, value |-> payment_header.doc,
          error |-> <<"Failed to decode payment header: ", DecodeCause(payment_header.enc)>>]

\* Python truthiness of a header value: None and "" are falsy.
TruthyHeader(h) == IsSome(h) /\ Get(h).enc # "empty"

\* Mutant: x-402 is read first, and x-payment when it is absent or empty.
PaymentHeaderOfX402First(request) ==
    IF TruthyHeader(request.headers["x-402"])
    THEN request.headers["x-402"]
    ELSE request.headers["x-payment"]

\* request.headers.get("x-payment") or request.headers.get("x-402")
PaymentHeaderOf(request) ==
    IF TruthyHeader(request.headers["x-payment"])
    THEN request.headers["x-payment"]
    ELSE request.headers["x-402"]

\* Mutant: a 402 that reports an error leaves out the requirements.
ChallengeBodyErrorOnly(requirements, error) ==
    [ x402Version |-> 1,
      accepts |-> IF IsSome(error) /\ Get(error) # <<>> THEN <<>>
                  ELSE <<ToDict(requirements)>>,
      error |-> IF IsSome(error) /\ Get(error) # <<>> THEN error ELSE None ]

\* The response of the middleware itself (JSONResponse) or of the handler.
\* X402PaywallMiddleware._create_payment_required_response: `if error:`
\* leaves out an absent or empty error.
ChallengeBody(requirements, error) ==
    [ x402Version |-> 1,
      accepts |-> <<ToDict(requirements)>>,
      error |-> IF IsSome(error) /\ Get(error) # <<>> THEN error ELSE None ]

create_payment_required_response(requirements, error) ==
    [ status |-> 402, source |-> "middleware",
      challenge |-> Some(ChallengeBody(requirements, error)),
      body |-> "challenge", receipt |-> None ]

\* base64.b64encode(json.dumps(settle_result).encode()).decode() and its
\* inverse.
EncodeReceipt(result) == [b64 |-> [utf8 |-> [json |-> result]]]
DecodeReceipt(value) == value.b64.utf8.json

\* Mutant: the response is built anew around the handler's body, which
\* loses the handler's status code.
WithReceiptAsOk(response, result) ==
    [response EXCEPT !.receipt = Some(EncodeReceipt(result)), !.status = 200]

\* dispatch, lines 355-365: the handler's response with the receipt header.
WithReceipt(response, result) ==
    [response EXCEPT !.receipt = Some(EncodeReceipt(result))]

\* Mutant: the proof is read from the top level of the decoded header,
\* whether it has a `payload` key or not.
PayloadOfTopLevel(doc) ==
    [ isObj |-> TRUE, transaction |-> doc.transaction,
      transactionBcsBase64 |-> doc.transactionBcsBase64,
      signature |-> doc.signature,
      signatureBcsBase64 |-> doc.signatureBcsBase64,
      x402Version |-> doc.x402Version, scheme |-> doc.scheme ]

\* payment_payload.get("payload", payment_payload), line 292: the value
\* under `payload` when the key is there, else the decoded header itself,
\* with every key it has.
PayloadOf(doc) ==
    IF IsSome(doc.payload) THEN Get(doc.payload)
    ELSE [ isObj |-> TRUE, transaction |-> doc.transaction,
           transactionBcsBase64 |-> doc.transactionBcsBase64,
           signature |-> doc.signature,
           signatureBcsBase64 |-> doc.signatureBcsBase64,
           x402Version |-> doc.x402Version, scheme |-> doc.scheme ]

\* dispatch, lines 283-300: what can raise between decoding and the verify
\* call.  None when nothing raises, else the exception text.

HasLen(field) == Get(field).kind # "number"

PreVerifyError(doc) ==
    IF doc.type # "object"
    THEN Some(<<"'", doc.type, "' object has no attribute 'get'">>)
    ELSE IF IsSome(doc.scheme) /\ ~Get(doc.scheme).isStr
    THEN Some(<<"object has no attribute 'lower'">>)
    ELSE IF ~PayloadOf(doc).isObj
    THEN Some(<<"object has no attribute 'keys'">>)
    ELSE IF IsSome(PayloadOf(doc).transaction) /\ ~HasLen(PayloadOf(doc).transaction)
    THEN Some(<<"object of type 'int' has no len()">>)
    ELSE IF IsSome(PayloadOf(doc).signature) /\ ~HasLen(PayloadOf(doc).signature)
    THEN Some(<<"object of type 'int' has no len()">>)
    ELSE None

\* payment_payload.get("x402Version", 1)
VersionOf(doc) == IF IsSome(doc.x402Version) THEN Get(doc.x402Version) ELSE 1

(***************************************************************************)
(* The inputs the model draws from: transactions, header values, requests, *)
(* configurations and the answers of the two external systems.             *)
(***************************************************************************)
PayTo == "0xA11CE"
Payer == "0xpayer"

IntArg(n) == [type |-> "int", text |-> ToString(n), value |-> n, digits |-> <<>>]
AddressArg(a) == [type |-> "address", text |-> a, value |-> 0, digits |-> <<>>]

CoinTransfer == <<"0x1", "::", "coin", "::", "transfer">>
OtherFunction == <<"0x1", "::", "staking", "::", "stake">>

Transaction(expiration, function, arguments) ==
    [ deserializes |-> TRUE, sender |-> Payer, expiration |-> expiration,
      hasValue |-> TRUE, hasFunction |-> TRUE, function |-> function,
      hasArguments |-> TRUE, arguments |-> arguments ]

Garbage == [Transaction(None, OtherFunction, <<>>) EXCEPT !.deserializes = FALSE]

Blob(kind, tx) == [kind |-> kind, tx |-> tx]

\* A transfer of `amount` to `recipient` expiring at `expiration`.
TransferBlob(recipient, amount, expiration) ==
    Blob("bytes", Transaction(Some(expiration), CoinTransfer,
                              <<AddressArg(recipient), IntArg(amount)>>))

PaidBlob == TransferBlob("0xa11ce", 100, 1600)
UnderpaidBlob == TransferBlob("0xa11ce", 50, 1600)
MisdirectedBlob == TransferBlob("0xb0b", 100, 1600)
OtherCallBlob == Blob("bytes", Transaction(None, OtherFunction, <<>>))
GarbageBlob == Blob("bytes", Garbage)
BadBase64Blob == Blob("badb64", Garbage)
NumberBlob == Blob("number", Garbage)
EmptyBlob == Blob("empty", Garbage)
SignatureBlob == Blob("bytes", Garbage)

PayloadObject(transaction, transactionBcsBase64, signature) ==
    [ isObj |-> TRUE, transaction |-> transaction,
      transactionBcsBase64 |-> transactionBcsBase64,
      signature |-> signature, signatureBcsBase64 |-> None ]

NotAnObject == [PayloadObject(None, None, None) EXCEPT !.isObj = FALSE]

Word(w) == [isStr |-> TRUE, word |-> w]
NotAWord == [isStr |-> FALSE, word |-> ""]

\* A JSON object carrying its proof nested under `payload`.
NestedDoc(version, scheme, payload) ==
    [ type |-> "object", x402Version |-> version, scheme |-> scheme,
      payload |-> Some(payload), transaction |-> None,
      transactionBcsBase64 |-> None, signature |-> None,
      signatureBcsBase64 |-> None ]

\* A JSON object carrying its proof at top level.
FlatDoc(version, scheme, transaction, transactionBcsBase64, signature) ==
    [ type |-> "object", x402Version |-> version, scheme |-> scheme,
      payload |-> None, transaction |-> transaction,
      transactionBcsBase64 |-> transactionBcsBase64, signature |-> signature,
      signatureBcsBase64 |-> None ]

NonObjectDoc(type) == [FlatDoc(None, None, None, None, None) EXCEPT !.type = type]

Header(enc, doc) == [enc |-> enc, doc |-> doc]
JsonHeader(doc) == Header("json", doc)
ProofHeader(blob) ==
    JsonHeader(NestedDoc(Some(1), Some(Word("exact")),
                         PayloadObject(Some(blob), None, Some(SignatureBlob))))

UndecodableHeaders ==
    { Header(enc, NonObjectDoc("null")) : enc \in {"not_base64", "not_utf8", "not_json"} }

EmptyHeader == Header("empty", NonObjectDoc("null"))

MalformedHeaders ==
    { JsonHeader(NonObjectDoc("list")),
      JsonHeader(NestedDoc(Some(1), Some(NotAWord),
                           PayloadObject(Some(PaidBlob), None, Some(SignatureBlob)))),
      JsonHeader(NestedDoc(Some(1), Some(Word("exact")), NotAnObject)),
      ProofHeader(NumberBlob) }

ProofHeaders ==
    { ProofHeader(PaidBlob),
      ProofHeader(UnderpaidBlob),
      ProofHeader(MisdirectedBlob),
      ProofHeader(OtherCallBlob),
      ProofHeader(GarbageBlob),
      ProofHeader(BadBase64Blob),
      JsonHeader(FlatDoc(None, Some(Word("EXACT")), Some(EmptyBlob), Some(PaidBlob), None)),
      JsonHeader(FlatDoc(Some(2), None, None, None, Some(SignatureBlob))) }

HeaderNames == {"x-payment", "x-402", "x-forwarded-proto", "host"}

Headers(xPayment, x402, proto, host) ==
    [ n \in HeaderNames |->
        CASE n = "x-payment" -> xPayment
          [] n = "x-402" -> x402
          [] n = "x-forwarded-proto" -> proto
          [] OTHER -> host ]

\* The header sets of the requests: no proof, one proof header, both proof
\* headers, with and without the proxy headers.
HeaderSets ==
    { Headers(None, None, None, None),
      Headers(None, None, Some(<<"https">>), Some(<<"example.com">>)),
      Headers(Some(EmptyHeader), None, None, Some(<<"example.com">>)),
      Headers(None, Some(ProofHeader(PaidBlob)), None, None),
      Headers(Some(EmptyHeader), Some(ProofHeader(UnderpaidBlob)), None, None),
      Headers(Some(Header("not_json", NonObjectDoc("null"))),
              Some(ProofHeader(PaidBlob)), None, None),
      Headers(Some(ProofHeader(UnderpaidBlob)), Some(ProofHeader(PaidBlob)), None, None) }
    \cup { Headers(Some(h), None, None, Some(<<"example.com">>)) :
             h \in UndecodableHeaders \cup MalformedHeaders \cup ProofHeaders }

Methods == {"GET", "POST", "post"}

Paths ==
    { <<"/">>,
      <<"/", "api", "/", "premium">>,
      <<"/", "api", "/", "premium", "/">>,
      <<"/", "api", "/", "data">>,
      <<"/", "api", "/", "premium", "?", "x">>,
      <<"/", ".well-known", "/", "agent.json">>,
      <<"/", "sentiment", "/", ".well-known", "/", "agent-card.json">>,
      <<"/", ".well-known", "/", "agent.json", "/", "raw">>,
      <<"/", "health">> }

\* The requests of the model; the lower-case method goes to one path only.
Requests ==
    { r \in [method : Methods, path : Paths, headers : HeaderSets] :
        r.method = "post" => r.path = <<"/", "api", "/", "premium">> }

\* The routes an application may register, each with its own policy.
AptosCoin == <<"0x1", "::", "aptos_coin", "::", "AptosCoin">>

RouteKeys ==
    { WildcardKey,
      RouteKey("POST", <<"/", "api", "/", "premium">>),
      RouteKey("GET", <<"/", "api", "/", "data", "/">>),
      RouteKey("GET", <<"/", ".well-known", "/", "agent.json">>) }

ConfigOf(key) ==
    CASE key = WildcardKey ->
           RouteConfig("movement", AptosCoin, <<"1", "0", "0">>, "Sentiment & Trading Agent access")
      [] key.method = "POST" ->
           RouteConfig("movement", AptosCoin, <<"1", "0", "0">>, "Premium Chat access")
      [] OTHER ->
           [ RouteConfig("movement-testnet", AptosCoin, <<"5", "0">>, "Data access")
               EXCEPT !.mime_type = <<"text/plain">>, !.max_timeout_seconds = 60 ]

\* The largest number of routes a registry of the model holds.
MaxRoutes == 2

Registries ==
    { [k \in K |-> ConfigOf(k)] : K \in {S \in SUBSET RouteKeys : Cardinality(S) <= MaxRoutes} }

\* The skip_paths argument of the constructor: absent, or a custom list.
SkipPathArguments == { <<>>, << <<"/", "health">> >> }

\* The clock readings of time.time() during a verification.
Times == {1000, 1700}

\* The answers of the RPC node to transaction.simulate.
RpcResult(isObj, sender, txSender) ==
    [isObj |-> isObj, sender |-> sender, txSender |-> txSender]

RpcAnswer(kind, result, error) ==
    [ kind |-> kind, status |-> "503", result |-> result, error |-> error,
      cause |-> <<"Read timed out">> ]

RpcAnswers ==
    { RpcAnswer("result", RpcResult(TRUE, Some(Payer), None), None),
      RpcAnswer("result", RpcResult(TRUE, None, Some(Payer)), None),
      RpcAnswer("result", RpcResult(TRUE, None, None), None),
      RpcAnswer("result", RpcResult(FALSE, None, None), None),
      RpcAnswer("error", RpcResult(TRUE, None, None), Some(<<"INVALID_SIGNATURE">>)),
      RpcAnswer("status", RpcResult(TRUE, None, None), None),
      RpcAnswer("transport", RpcResult(TRUE, None, None), None),
      [RpcAnswer("transport", RpcResult(TRUE, None, None), None)
           EXCEPT !.cause = <<"Connection refused">>] }

\* The answers of the remote facilitator to /settle.
SettleBody(isObj, success, error, message, txHash) ==
    [ isObj |-> isObj, success |-> success, error |-> error, message |-> message,
      txHash |-> txHash, network |-> IF success THEN Some("movement") ELSE None ]

SettleAnswer(kind, status, json, body) ==
    [ kind |-> kind, status |-> status, json |-> json, body |-> body,
      text |-> <<"Bad Gateway">>, textLength |-> 11, cause |-> <<"Connection refused">>,
      jsonErrorIsRequestException |-> TRUE ]

NoBody == SettleBody(FALSE, FALSE, None, None, None)

\* Every kind of answer settle_payment tells apart.
AllSettleAnswers ==
    { SettleAnswer("answer", "200", TRUE, SettleBody(TRUE, TRUE, None, None, Some("0xhash"))),
      SettleAnswer("answer", "200", TRUE,
                   SettleBody(TRUE, FALSE, Some(<<"INSUFFICIENT_BALANCE">>), None, None)),
      SettleAnswer("answer", "200", TRUE, SettleBody(TRUE, FALSE, None, None, None)),
      SettleAnswer("answer", "200", TRUE, NoBody),
      SettleAnswer("answer", "200", FALSE, NoBody),
      [SettleAnswer("answer", "200", FALSE, NoBody) EXCEPT !.jsonErrorIsRequestException = FALSE],
      SettleAnswer("answer", "500", TRUE,
                   SettleBody(TRUE, FALSE, Some(<<"SEQUENCE_NUMBER_TOO_OLD">>), None, None)),
      SettleAnswer("answer", "500", TRUE,
                   SettleBody(TRUE, FALSE, None, Some(<<"settlement rejected">>), None)),
      SettleAnswer("answer", "502", FALSE, NoBody),
      [SettleAnswer("answer", "502", FALSE, NoBody)
           EXCEPT !.text = <<"<html>", "Bad Gateway", "</html>">>, !.textLength = 501],
      SettleAnswer("answer", "404", TRUE, SettleBody(TRUE, FALSE, None, None, None)),
      SettleAnswer("answer", "404", TRUE, NoBody),
      SettleAnswer("answer", "409", TRUE,
                   SettleBody(TRUE, FALSE, Some(<<"ALREADY_SETTLED">>),
                              Some(<<"conflict">>), None)),
      SettleAnswer("transport", "", FALSE, NoBody),
      [SettleAnswer("transport", "", FALSE, NoBody) EXCEPT !.cause = <<"Read timed out">>] }

\* The answers the requests of the middleware model meet: a success, the
\* failures with and without an error text, a body that is no object, a
\* non-200 answer and a transport failure.
SettleAnswers ==
    { a \in AllSettleAnswers :
        /\ a.status \in {"200", "500", ""}
        /\ a.json \/ a.kind = "transport"
        /\ ~IsSome(a.body.message) }

\* The responses of the downstream handler.
HandlerResponse(status, body) ==
    [ status |-> status, source |-> "handler", challenge |-> None,
      body |-> body, receipt |-> None ]

HandlerResponses == { HandlerResponse(200, "result"), HandlerResponse(404, "not found") }

\* The exceptions a handler may raise, by the except clause that catches them.
HandlerErrors == {"ValueError", "Exception"}

(***************************************************************************)
(* The middleware as a state machine: one request at a time goes through   *)
(* X402PaywallMiddleware.dispatch.                                         *)
(***************************************************************************)
VARIABLES
    routes,          \* self.routes
    skip_paths,      \* self.skip_paths
    pay_to,          \* self.pay_to
    sdk_available,   \* APTOS_SDK_AVAILABLE
    pc,              \* where dispatch stands
    request,         \* the request being served, if any
    requirements,    \* the PaymentRequirements built for it, if any
    payment_payload, \* the decoded proof header, if any
    settle_result,   \* the result of the last settle call, if any
    response,        \* the response dispatch returned, if any
    raised,          \* the exception dispatch propagated, if any
    trace,           \* the calls made for this request, in order
    verify_calls,    \* arguments and result of each verify_payment call
    settle_calls,    \* arguments and result of each settle_payment call
    outbound,        \* the network calls made for this request, with their answers
    rpc_url,         \* FacilitatorService.rpc_url
    facilitator_url, \* FacilitatorService.facilitator_url
    clock,           \* time.time(), for the calls made to the service directly
    arguments,       \* the dicts a direct caller holds and passes to the service
    calls,           \* the direct calls to the service, each with its outcome
    task             \* the dispatch tasks of the requests handled concurrently

config == <<routes, skip_paths, pay_to, sdk_available, rpc_url, facilitator_url>>
local == <<request, requirements, payment_payload, settle_result, response, raised,
           trace, verify_calls, settle_calls, outbound>>
\* The state of the direct calls and of the concurrent tasks, which a request
\* through the one dispatch of this state machine never touches.
elsewhere == <<clock, arguments, calls, task>>
vars == <<routes, skip_paths, pay_to, sdk_available, pc, request, requirements,
          payment_payload, settle_result, response, raised, trace, verify_calls,
          settle_calls, outbound, rpc_url, facilitator_url, clock, arguments, calls,
          task>>

\* FacilitatorService.__init__ with no arguments and no environment set,
\* outside a container.
MOVEMENT_RPC == <<"https://mainnet.movementnetwork.xyz/v1">>
LocalFacilitatorUrl == <<"http://localhost:3000/api/facilitator">>

\* Nobody calls the service directly, and no concurrent task exists.
NoDirectCalls == clock = 0 /\ arguments = None /\ calls = <<>>
NoTasks == task = <<>>

\* The middleware as constructed by __init__, before any request.
Init ==
    /\ routes \in Registries
    /\ skip_paths \in {InitSkipPaths(a) : a \in SkipPathArguments}
    /\ pay_to = PayTo
    /\ sdk_available \in BOOLEAN
    /\ pc = "idle"
    /\ request = None
    /\ requirements = None
    /\ payment_payload = None
    /\ settle_result = None
    /\ response = None
    /\ raised = None
    /\ trace = <<>>
    /\ verify_calls = <<>>
    /\ settle_calls = <<>>
    /\ outbound = <<>>
    /\ rpc_url = MOVEMENT_RPC
    /\ facilitator_url = LocalFacilitatorUrl
    /\ NoDirectCalls
    /\ NoTasks

\* A request reaches dispatch.
Receive ==
    /\ pc = "idle"
    /\ \E r \in Requests : request' = Some(r)
    /\ pc' = "dispatch"
    /\ UNCHANGED <<config, elsewhere, outbound, requirements, payment_payload,
                   settle_result, response, raised, trace, verify_calls,
                   settle_calls>>

\* dispatch returns `resp`.
Return(resp) ==
    /\ response' = Some(resp)
    /\ pc' = "done"

\* dispatch, lines 242-252: the skip list and the route lookup.
Skipped == should_skip_payment(skip_paths, Get(request).path)
RouteConfigOf == get_route_config(routes, Get(request).method, Get(request).path)
IsProtected == ~Skipped /\ IsSome(RouteConfigOf)

\* dispatch, lines 256-258.
RequirementsOf ==
    to_payment_requirements(absolute_resource_url(Get(request)), pay_to, Get(RouteConfigOf))

\* Mutant: line 245 without its `return`: the handler is awaited and
\* dispatch goes on to the route lookup, which forwards once more.
SkipPaymentFallsThrough ==
    /\ pc = "dispatch"
    /\ Skipped
    /\ trace = <<>>
    /\ trace' = <<"call_next">>
    /\ pc' = "call_next"
    /\ UNCHANGED <<config, elsewhere, outbound, request, requirements,
                   payment_payload, settle_result, response, raised,
                   verify_calls, settle_calls>>

\* dispatch, lines 242-245: a skip-listed path goes to the handler.
SkipPayment ==
    /\ pc = "dispatch"
    /\ Skipped
    /\ pc' = "call_next"
    /\ UNCHANGED <<config, elsewhere, local>>

\* dispatch, lines 247-252: an unprotected route goes to the handler.
RouteNotProtected ==
    /\ pc = "dispatch"
    /\ ~Skipped
    /\ ~IsSome(RouteConfigOf)
    /\ pc' = "call_next"
    /\ UNCHANGED <<config, elsewhere, local>>

\* dispatch, lines 256-273: a protected route without a proof header.
\* Mutant: the lookup remembers what it found under the request's own key.
NoPaymentHeaderMemoising ==
    /\ pc = "dispatch"
    /\ IsProtected
    /\ ~TruthyHeader(PaymentHeaderOf(Get(request)))
    /\ requirements' = Some(RequirementsOf)
    /\ Return(create_payment_required_response(RequirementsOf, None))
    /\ routes' =
         LET route_key == RouteKey(Upper(Get(request).method),
                                   NormalizePath(Get(request).path))
         IN  [k \in DOMAIN routes \cup {route_key} |->
                 IF k \in DOMAIN routes THEN routes[k] ELSE Get(RouteConfigOf)]
    /\ UNCHANGED <<skip_paths, pay_to, sdk_available, rpc_url, facilitator_url,
                   elsewhere, outbound, request, payment_payload,
                   settle_result, raised, trace, verify_calls, settle_calls>>

NoPaymentHeader ==
    /\ pc = "dispatch"
    /\ IsProtected
    /\ ~TruthyHeader(PaymentHeaderOf(Get(request)))
    /\ requirements' = Some(RequirementsOf)
    /\ Return(create_payment_required_response(RequirementsOf, None))
    /\ UNCHANGED <<config, elsewhere, outbound, request, payment_payload,
                   settle_result, raised, trace, verify_calls, settle_calls>>

\* dispatch, lines 281 and 367-372: the header does not decode.
InvalidPaymentHeader ==
    /\ pc = "dispatch"
    /\ IsProtected
    /\ TruthyHeader(PaymentHeaderOf(Get(request)))
    /\ LET decoded == decode_payment_header(Get(PaymentHeaderOf(Get(request))))
       IN  /\ ~decoded.ok
           /\ Return(create_payment_required_response(
                  RequirementsOf, Some(<<"Invalid payment header: ">> \o decoded.error)))
    /\ requirements' = Some(RequirementsOf)
    /\ UNCHANGED <<config, elsewhere, outbound, request, payment_payload,
                   settle_result, raised, trace, verify_calls, settle_calls>>

\* Mutant: without the `except Exception` clause the exception leaves
\* dispatch.
PayloadRaisesUncaught ==
    /\ pc = "dispatch"
    /\ IsProtected
    /\ TruthyHeader(PaymentHeaderOf(Get(request)))
    /\ LET decoded == decode_payment_header(Get(PaymentHeaderOf(Get(request))))
       IN  /\ decoded.ok
           /\ IsSome(PreVerifyError(decoded.value))
           /\ payment_payload' = Some(decoded.value)
           /\ raised' = Some("AttributeError")
    /\ requirements' = Some(RequirementsOf)
    /\ pc' = "done"
    /\ UNCHANGED <<config, elsewhere, outbound, request, settle_result,
                   response, trace, verify_calls, settle_calls>>

\* dispatch, lines 283-300 and 373-382: the decoded header is not a proof
\* object, and reading it raises.
PayloadRaises ==
    /\ pc = "dispatch"
    /\ IsProtected
    /\ TruthyHeader(PaymentHeaderOf(Get(request)))
    /\ LET decoded == decode_payment_header(Get(PaymentHeaderOf(Get(request))))
       IN  /\ decoded.ok
           /\ IsSome(PreVerifyError(decoded.value))
           /\ payment_payload' = Some(decoded.value)
           /\ Return(create_payment_required_response(
                  RequirementsOf,
                  Some(<<"Payment verification error: ">> \o Get(PreVerifyError(decoded.value)))))
    /\ requirements' = Some(RequirementsOf)
    /\ UNCHANGED <<config, elsewhere, outbound, request, settle_result, raised,
                   trace, verify_calls, settle_calls>>

\* dispatch, lines 281-300: the header decodes to a proof object.
PaymentDecoded ==
    /\ pc = "dispatch"
    /\ IsProtected
    /\ TruthyHeader(PaymentHeaderOf(Get(request)))
    /\ LET decoded == decode_payment_header(Get(PaymentHeaderOf(Get(request))))
       IN  /\ decoded.ok
           /\ ~IsSome(PreVerifyError(decoded.value))
           /\ payment_payload' = Some(decoded.value)
    /\ requirements' = Some(RequirementsOf)
    /\ pc' = "verify"
    /\ UNCHANGED <<config, elsewhere, outbound, request, settle_result,
                   response, raised, trace, verify_calls, settle_calls>>

\* The arguments dispatch passes to verify_payment and settle_payment.
PaymentData == PayloadOf(Get(payment_payload))
PaymentReqsDict == ToDict(Get(requirements))

Call(result) ==
    [ x402_version |-> VersionOf(Get(payment_payload)),
      payment_payload |-> PaymentData,
      payment_requirements |-> PaymentReqsDict,
      result |-> result ]

\* Mutant: the 402 of a failed verification carries the default reason.
InvalidReasonDefault(verify_result) == Some(<<"Invalid payment">>)

\* verify_result.get("invalidReason", "Invalid payment")
InvalidReasonOf(verify_result) ==
    IF IsSome(verify_result.invalidReason) THEN verify_result.invalidReason
    ELSE Some(<<"Invalid payment">>)

\* Mutant: the 402 of a failed settlement carries the default error.
SettleErrorDefault(result) == Some(<<"Settlement failed">>)

\* settle_result.get("error", "Settlement failed")
SettleErrorOf(result) ==
    IF IsSome(result.error) THEN result.error ELSE Some(<<"Settlement failed">>)

\* Mutant: the branch of line 314 takes every verification for valid.
IsValidAlways(verify_result) == TRUE

\* verify_result.get("isValid"), line 314.
IsValid(verify_result) == verify_result.isValid

\* Mutant: the branches of lines 331 and 341 take every result for a success.
SucceededAlways(result) == TRUE

\* settle_result.get("success"), lines 331 and 341.
Succeeded(result) == result.success

\* dispatch, lines 302-322: the verify call and the branch on its result.
VerifyPayment ==
    /\ pc = "verify"
    /\ \E current_time \in Times, rpc \in RpcAnswers :
         LET verify_result == verify_payment(PaymentData, PaymentReqsDict,
                                             sdk_available, current_time, rpc)
         IN  /\ verify_calls' = Append(verify_calls, Call(verify_result))
             /\ trace' = Append(trace, "verify")
             /\ outbound' = outbound \o verify_payment_posts(
                                 PaymentData, sdk_available, rpc_url, rpc)
             /\ IF ~IsValid(verify_result)
                THEN Return(create_payment_required_response(
                         Get(requirements), InvalidReasonOf(verify_result)))
                ELSE pc' = "settle" /\ UNCHANGED response
    /\ UNCHANGED <<config, elsewhere, request, requirements, payment_payload,
                   settle_result, raised, settle_calls>>

\* The 402 of lines 373-382 for a settle result that is no dict.
SettleResultRaises ==
    create_payment_required_response(
        Get(requirements),
        Some(<<"Payment verification error: ", "object has no attribute 'get'">>))

\* Mutant: settle_payment is given the decoded header itself where dispatch
\* gives it the payload body.
SettleCallWholeHeader(remote) ==
    /\ settle_result' = Some(settle_payment(remote))
    /\ settle_calls' = Append(settle_calls,
           [Call(settle_payment(remote)) EXCEPT
               !.payment_payload = PayloadOf([Get(payment_payload) EXCEPT !.payload = None])])
    /\ trace' = Append(trace, "settle")
    /\ outbound' = outbound \o settle_payment_posts(PaymentData, facilitator_url, remote)

\* One settle_payment call of dispatch: the call, and the record of it.
SettleCall(remote) ==
    /\ settle_result' = Some(settle_payment(remote))
    /\ settle_calls' = Append(settle_calls, Call(settle_payment(remote)))
    /\ trace' = Append(trace, "settle")
    /\ outbound' = outbound \o settle_payment_posts(PaymentData, facilitator_url, remote)

\* dispatch, lines 324-331: the first settle call.
SettlePayment ==
    /\ pc = "settle"
    /\ \E remote \in SettleAnswers :
         /\ SettleCall(remote)
         /\ IF ~settle_payment(remote).isObj
            THEN Return(SettleResultRaises)
            ELSE /\ pc' = IF Succeeded(settle_payment(remote)) THEN "call_next" ELSE "backoff"
                 /\ UNCHANGED response
    /\ UNCHANGED <<config, elsewhere, request, requirements, payment_payload,
                   raised, verify_calls>>

\* Mutant: after the sleep the request goes through the pipeline again,
\* from the header on, as often as settlement fails.
BackoffRestarts ==
    /\ pc = "backoff"
    /\ pc' = "dispatch"
    /\ requirements' = None
    /\ payment_payload' = None
    /\ settle_result' = None
    /\ trace' = <<>>
    /\ verify_calls' = <<>>
    /\ settle_calls' = <<>>
    /\ outbound' = <<>>
    /\ UNCHANGED <<config, elsewhere, request, response, raised>>

\* dispatch, lines 333-334: await asyncio.sleep(1).
Backoff ==
    /\ pc = "backoff"
    /\ trace' = Append(trace, "sleep")
    /\ pc' = "retry"
    /\ UNCHANGED <<config, elsewhere, outbound, request, requirements,
                   payment_payload, settle_result, response, raised,
                   verify_calls, settle_calls>>

\* Mutant: the result of the retry is dropped; dispatch goes on with the
\* result of the first attempt.
RetrySettlementKeepsFirst ==
    /\ pc = "retry"
    /\ \E remote \in SettleAnswers :
         /\ settle_calls' = Append(settle_calls, Call(settle_payment(remote)))
         /\ trace' = Append(trace, "settle")
         /\ outbound' = outbound \o settle_payment_posts(PaymentData, facilitator_url, remote)
    /\ Return(create_payment_required_response(
           Get(requirements), SettleErrorOf(Get(settle_result))))
    /\ UNCHANGED <<config, elsewhere, request, requirements, payment_payload,
                   settle_result, raised, verify_calls>>

\* dispatch, lines 335-348: the retry and the branch on its result.
RetrySettlement ==
    /\ pc = "retry"
    /\ \E remote \in SettleAnswers :
         /\ SettleCall(remote)
         /\ IF ~settle_payment(remote).isObj
            THEN Return(SettleResultRaises)
            ELSE IF ~Succeeded(settle_payment(remote))
            THEN Return(create_payment_required_response(
                     Get(requirements), SettleErrorOf(settle_payment(remote))))
            ELSE pc' = "call_next" /\ UNCHANGED response
    /\ UNCHANGED <<config, elsewhere, request, requirements, payment_payload,
                   raised, verify_calls>>

\* dispatch, lines 245, 252 and 355: await call_next(request).
CallNext ==
    /\ pc = "call_next"
    /\ trace' = Append(trace, "call_next")
    /\ pc' = "handler"
    /\ UNCHANGED <<config, elsewhere, outbound, request, requirements,
                   payment_payload, settle_result, response, raised,
                   verify_calls, settle_calls>>

\* The handler returns: as it is for an unprotected request (lines 245,
\* 252), with the receipt header for a paid one (lines 356-365).
HandlerReturns ==
    /\ pc = "handler"
    /\ \E handler_response \in HandlerResponses :
         Return(IF IsSome(requirements)
                THEN WithReceipt(handler_response, Get(settle_result))
                ELSE handler_response)
    /\ UNCHANGED <<config, elsewhere, outbound, request, requirements,
                   payment_payload, settle_result, raised, trace, verify_calls,
                   settle_calls>>

\* The handler raises: outside the try block the exception leaves dispatch
\* (lines 245, 252); inside it the except clauses of lines 367-382 answer.
HandlerRaises ==
    /\ pc = "handler"
    /\ \E error \in HandlerErrors :
         IF IsSome(requirements)
         THEN /\ Return(create_payment_required_response(
                     Get(requirements),
                     Some(<<IF error = "ValueError" THEN "Invalid payment header: "
                            ELSE "Payment verification error: ", "handler failed">>)))
              /\ UNCHANGED raised
         ELSE /\ raised' = Some(error)
              /\ pc' = "done"
              /\ UNCHANGED response
    /\ UNCHANGED <<config, elsewhere, outbound, request, requirements,
                   payment_payload, settle_result, trace, verify_calls,
                   settle_calls>>

\* The request is over; the middleware keeps nothing of it.
NextRequest ==
    /\ pc = "done"
    /\ pc' = "idle"
    /\ request' = None
    /\ requirements' = None
    /\ payment_payload' = None
    /\ settle_result' = None
    /\ response' = None
    /\ raised' = None
    /\ trace' = <<>>
    /\ verify_calls' = <<>>
    /\ settle_calls' = <<>>
    /\ outbound' = <<>>
    /\ UNCHANGED <<config, elsewhere>>

Next ==
    \/ Receive
    \/ SkipPayment
    \/ RouteNotProtected
    \/ NoPaymentHeader
    \/ InvalidPaymentHeader
    \/ PayloadRaises
    \/ PaymentDecoded
    \/ VerifyPayment
    \/ SettlePayment
    \/ Backoff
    \/ RetrySettlement
    \/ CallNext
    \/ HandlerReturns
    \/ HandlerRaises
    \/ NextRequest

Spec == Init /\ [][Next]_vars

(***************************************************************************)
(* The facilitator service called directly, as the handlers of             *)
(* app/facilitator/routes.py call it: a caller holds a payload and the     *)
(* requirements, both taken from a JSON body, and calls verify_payment or  *)
(* settle_payment with them, more than once, while the clock goes on.      *)
(***************************************************************************)
\* A payload dict with the fields the service reads and two more that a
\* client may add to it, a payTo and a recipient of its own declaration.
DeclaringPayload(transaction, transactionBcsBase64, payTo, recipient) ==
    [ isObj |-> TRUE, transaction |-> transaction,
      transactionBcsBase64 |-> transactionBcsBase64,
      signature |-> Some(SignatureBlob), signatureBcsBase64 |-> None,
      payTo |-> payTo, recipient |-> recipient ]

DirectPayload(blob) == DeclaringPayload(Some(blob), None, None, None)

\* The payload without what the client declared in it.
Undeclared(payload) ==
    [payload EXCEPT !.payTo = None, !.recipient = None]

\* A transfer by `function` with the given arguments, expiring at
\* `expiration` if that is set.
TransferOf(function, args, expiration) ==
    Blob("bytes", Transaction(expiration, function, args))

StrArg(digits) == [type |-> "str", text |-> "str", value |-> 0, digits |-> digits]

AccountTransfer == <<"0x1", "::", "aptos_account", "::", "transfer">>

Recipients == {"0xa11ce", "0xA11CE", "0xb0b"}
Expirations == {None, Some(1001), Some(1003), Some(1601)}

DirectBlobs ==
    { TransferOf(CoinTransfer, <<AddressArg(r), IntArg(100)>>, e) :
        r \in Recipients, e \in Expirations }
    \cup { TransferOf(OtherFunction, <<AddressArg("0xb0b"), IntArg(1)>>, e) :
             e \in Expirations }
    \cup { TransferOf(CoinTransfer, <<AddressArg("0xa11ce"), IntArg(a)>>, e) :
             a \in {99, 101}, e \in {None, Some(1001)} }
    \cup { TransferOf(CoinTransfer, <<AddressArg("0xb0b"), IntArg(99)>>, None),
           TransferOf(CoinTransfer, <<AddressArg("0xb0b"), IntArg(99)>>, Some(1001)),
           TransferOf(CoinTransfer, <<AddressArg("0xb0b"), IntArg(99)>>, Some(1601)),
           TransferOf(AccountTransfer, <<AddressArg("0xb0b"), IntArg(100)>>, None),
           TransferOf(CoinTransfer, <<AddressArg("0xa11ce"), StrArg(<<"9", "9">>)>>, None),
           TransferOf(CoinTransfer, <<AddressArg("0xb0b"), StrArg(<<"a", "b">>)>>, None),
           TransferOf(CoinTransfer, <<AddressArg("0xb0b")>>, None),
           TransferOf(CoinTransfer, <<>>, None),
           Blob("bytes", [Transaction(Some(1003), <<>>, <<>>)
                              EXCEPT !.hasValue = FALSE, !.hasFunction = FALSE,
                                     !.hasArguments = FALSE]),
           OtherCallBlob, GarbageBlob, BadBase64Blob }

DirectPayloads ==
    { DirectPayload(b) : b \in DirectBlobs }
    \cup { DeclaringPayload(Some(TransferOf(CoinTransfer,
                                            <<AddressArg("0xb0b"), IntArg(100)>>, None)),
                            None, Some(PayTo), Some("0xa11ce")),
           DeclaringPayload(Some(PaidBlob), None, Some("0xB0B"), Some("0xb0b")),
           DeclaringPayload(Some(EmptyBlob), Some(MisdirectedBlob), None, None),
           DeclaringPayload(Some(PaidBlob), Some(MisdirectedBlob), None, None),
           DeclaringPayload(Some(EmptyBlob), Some(EmptyBlob), None, None),
           DeclaringPayload(None, Some(EmptyBlob), None, None),
           DeclaringPayload(None, Some(PaidBlob), None, None),
           DeclaringPayload(None, None, Some(PayTo), None),
           [DirectPayload(PaidBlob) EXCEPT !.isObj = FALSE] }

\* The requirements of the agent's route for a request to its root, and the
\* same with a short timeout.
DirectRequirements ==
    LET agent == ToDict(to_payment_requirements(
                     <<"http", "://", "localhost", "/">>, PayTo, ConfigOf(WildcardKey)))
    IN  {agent, [agent EXCEPT !.maxTimeoutSeconds = 2]}

\* Requirements a server would not build but a caller may send: an amount
\* that is no number, an empty payee, and a value that is no dict.
MalformedRequirements ==
    LET agent == ToDict(to_payment_requirements(
                     <<"http", "://", "localhost", "/">>, PayTo, ConfigOf(WildcardKey)))
    IN  { [agent EXCEPT !.maxAmountRequired = <<"1", "e", "3">>],
          [agent EXCEPT !.payTo = ""],
          [agent EXCEPT !.isObj = FALSE] }

\* The payloads sent along with them.
MalformedPayloads ==
    { DirectPayload(b) : b \in {PaidBlob, OtherCallBlob, GarbageBlob, BadBase64Blob} }
    \cup { DeclaringPayload(None, None, None, None),
           [DirectPayload(PaidBlob) EXCEPT !.isObj = FALSE] }

\* What a caller holds: the endpoint it calls and the two dicts.
DirectArguments ==
    [ op : {"verify"}, payment_payload : DirectPayloads,
      payment_requirements : DirectRequirements ]
    \cup [ op : {"verify"}, payment_payload : MalformedPayloads,
           payment_requirements : MalformedRequirements ]
    \cup [ op : {"settle"},
           payment_payload : {DirectPayload(PaidBlob),
                              [DirectPayload(PaidBlob) EXCEPT !.isObj = FALSE]},
           payment_requirements : DirectRequirements ]

\* The answers of the RPC node the direct calls meet.
DirectRpcAnswers == RpcAnswers

\* The node simulates transactions only: bytes that are no transaction get
\* no simulation result from it.
NodeAnswers(payload) ==
    LET transaction_bcs == OrElse(payload.transaction, payload.transactionBcsBase64)
    IN  { a \in DirectRpcAnswers :
            (/\ a.kind = "result"
             /\ payload.isObj
             /\ TruthyBlob(transaction_bcs)
             /\ Get(transaction_bcs).kind = "bytes")
               => Get(transaction_bcs).tx.deserializes }

\* How far the clock goes, and how many calls a caller makes.
MaxTicks == 3
MaxCalls == 2

\* The record of one direct call: what was passed, when, the network calls
\* it made, and what came back or was raised.
DirectCall(op, posts, result, exception) ==
    [ op |-> op,
      payment_payload |-> Get(arguments).payment_payload,
      payment_requirements |-> Get(arguments).payment_requirements,
      time |-> clock, posts |-> posts, result |-> result, raised |-> exception ]

ServiceInit ==
    /\ routes = [k \in {WildcardKey} |-> ConfigOf(k)]
    /\ skip_paths = DefaultSkipPaths
    /\ pay_to = PayTo
    /\ sdk_available \in BOOLEAN
    /\ pc = "idle"
    /\ request = None
    /\ requirements = None
    /\ payment_payload = None
    /\ settle_result = None
    /\ response = None
    /\ raised = None
    /\ trace = <<>>
    /\ verify_calls = <<>>
    /\ settle_calls = <<>>
    /\ outbound = <<>>
    /\ rpc_url = MOVEMENT_RPC
    /\ facilitator_url = LocalFacilitatorUrl
    /\ clock = 1000
    /\ arguments \in {Some(a) : a \in DirectArguments}
    /\ calls = <<>>
    /\ NoTasks

\* time.time() goes on.
Tick ==
    /\ clock < 1000 + MaxTicks
    /\ clock' = clock + 1
    /\ UNCHANGED <<config, pc, local, arguments, calls, task>>

\* Mutant: verify_payment takes the transaction out of the payload it was
\* given (dict.pop for dict.get).
VerifyDirectPopping ==
    /\ Get(arguments).op = "verify"
    /\ Len(calls) < MaxCalls
    /\ \E rpc \in NodeAnswers(Get(arguments).payment_payload) :
         LET a == Get(arguments)
             exception == verify_payment_escapes(a.payment_payload)
         IN  calls' = Append(calls, DirectCall(
                 "verify",
                 verify_payment_posts(a.payment_payload, sdk_available, rpc_url, rpc),
                 IF IsSome(exception) THEN None
                 ELSE Some(verify_payment(a.payment_payload, a.payment_requirements,
                                          sdk_available, clock, rpc)),
                 exception))
    /\ arguments' = Some([Get(arguments) EXCEPT !.payment_payload.transaction = None])
    /\ UNCHANGED <<config, pc, local, clock, task>>

\* A call of verify_payment: its result, or the exception that leaves it.
VerifyDirect ==
    /\ Get(arguments).op = "verify"
    /\ Len(calls) < MaxCalls
    /\ \E rpc \in NodeAnswers(Get(arguments).payment_payload) :
         LET a == Get(arguments)
             exception == verify_payment_escapes(a.payment_payload)
         IN  calls' = Append(calls, DirectCall(
                 "verify",
                 verify_payment_posts(a.payment_payload, sdk_available, rpc_url, rpc),
                 IF IsSome(exception) THEN None
                 ELSE Some(verify_payment(a.payment_payload, a.payment_requirements,
                                          sdk_available, clock, rpc)),
                 exception))
    /\ UNCHANGED <<config, pc, local, clock, arguments, task>>

\* A call of settle_payment: its result, or the exception that leaves it.
SettleDirect ==
    /\ Get(arguments).op = "settle"
    /\ Len(calls) < MaxCalls
    /\ \E remote \in AllSettleAnswers :
         LET a == Get(arguments)
             exception == settle_payment_escapes(a.payment_payload, remote)
         IN  calls' = Append(calls, DirectCall(
                 "settle",
                 settle_payment_posts(a.payment_payload, facilitator_url, remote),
                 IF IsSome(exception) THEN None
                 ELSE Some(settle_payment_call(a.payment_payload, remote)),
                 exception))
    /\ UNCHANGED <<config, pc, local, clock, arguments, task>>

ServiceNext ==
    \/ Tick
    \/ VerifyDirect
    \/ SettleDirect

ServiceSpec == ServiceInit /\ [][ServiceNext]_vars

(***************************************************************************)
(* Callers of verify_payment whose payloads and requirements differ in     *)
(* what a client declares beside the transaction and in the fields of the  *)
(* requirements: each call is made with arguments of its own.              *)
(***************************************************************************)
\* A payload dict with a transaction under `transaction`, a signature under
\* either name or under none, and the scheme and network the client
\* declares (a proof sent at top level carries them in the same dict).
DeclaredPayload(transaction, signature, signatureBcsBase64, scheme, network) ==
    [ isObj |-> TRUE, transaction |-> Some(transaction), transactionBcsBase64 |-> None,
      signature |-> signature, signatureBcsBase64 |-> signatureBcsBase64,
      scheme |-> scheme, network |-> network ]

VaryingPayloads ==
    { DeclaredPayload(b, d[1], d[2], d[3], d[4]) :
        b \in {PaidBlob, MisdirectedBlob},
        d \in { <<Some(SignatureBlob), None, Some("exact"), Some("movement")>>,
                <<None, Some(PaidBlob), Some("upto"), Some("ethereum")>>,
                <<None, None, None, None>> } }

\* The requirements of the agent's route, the same for another asset on
\* another network, for another payee and a larger amount, and with a
\* timeout the transaction's expiration exceeds.
VaryingRequirements ==
    LET agent == ToDict(to_payment_requirements(
                     <<"http", "://", "localhost", "/">>, PayTo, ConfigOf(WildcardKey)))
    IN  { agent,
          [agent EXCEPT !.asset = <<"0x1", "::", "other", "::", "Coin">>,
                        !.network = "movement-testnet"],
          [agent EXCEPT !.payTo = "0xb0b", !.maxAmountRequired = <<"1", "5", "0">>],
          [agent EXCEPT !.maxTimeoutSeconds = 2] }

\* The answers of the node to these callers: a simulation with a sender,
\* one without, and an error.
VaryingRpcAnswers ==
    { RpcAnswer("result", RpcResult(TRUE, Some(Payer), None), None),
      RpcAnswer("result", RpcResult(TRUE, None, None), None),
      RpcAnswer("error", RpcResult(TRUE, None, None), Some(<<"INVALID_SIGNATURE">>)) }

VaryingInit ==
    /\ routes = [k \in {WildcardKey} |-> ConfigOf(k)]
    /\ skip_paths = DefaultSkipPaths
    /\ pay_to = PayTo
    /\ sdk_available \in BOOLEAN
    /\ pc = "idle"
    /\ request = None
    /\ requirements = None
    /\ payment_payload = None
    /\ settle_result = None
    /\ response = None
    /\ raised = None
    /\ trace = <<>>
    /\ verify_calls = <<>>
    /\ settle_calls = <<>>
    /\ outbound = <<>>
    /\ rpc_url = MOVEMENT_RPC
    /\ facilitator_url = LocalFacilitatorUrl
    /\ clock = 1000
    /\ arguments = None
    /\ calls = <<>>
    /\ NoTasks

\* A call of verify_payment with a payload and requirements of the caller's
\* choice.
VerifyVarying ==
    /\ Len(calls) < MaxCalls
    /\ \E payload \in VaryingPayloads, reqs \in VaryingRequirements,
          rpc \in VaryingRpcAnswers :
         /\ arguments' = Some([ op |-> "verify", payment_payload |-> payload,
                                payment_requirements |-> reqs ])
         /\ calls' = Append(calls,
              [ op |-> "verify",
                payment_payload |-> payload,
                payment_requirements |-> reqs,
                time |-> clock,
                posts |-> verify_payment_posts(payload, sdk_available, rpc_url, rpc),
                result |-> Some(verify_payment(payload, reqs, sdk_available, clock, rpc)),
                raised |-> verify_payment_escapes(payload) ])
    /\ UNCHANGED <<config, pc, local, clock, task>>

VaryingNext == VerifyVarying

VaryingSpec == VaryingInit /\ [][VaryingNext]_vars

(***************************************************************************)
(* One proof sent in its two shapes: nested under `payload`, at top level, *)
(* and nested with another transaction beside it at top level.  Each shape *)
(* is a request of its own through the paid branch of dispatch; all meet   *)
(* the same clock, the same node and the same facilitator and handler.     *)
(***************************************************************************)
\* The proofs: <<transaction, transactionBcsBase64, signature>>.
ShapeProofs ==
    { <<Some(PaidBlob), None, Some(SignatureBlob)>>,
      <<Some(MisdirectedBlob), None, Some(SignatureBlob)>>,
      <<None, Some(PaidBlob), None>>,
      <<Some(GarbageBlob), None, Some(SignatureBlob)>>,
      <<None, None, Some(SignatureBlob)>> }

Shapes == {"nested", "flat", "both"}

\* The decoded header that carries proof p in a shape.
ShapeDoc(shape, p) ==
    LET nested == NestedDoc(Some(1), Some(Word("exact")), PayloadObject(p[1], p[2], p[3]))
    IN  CASE shape = "nested" -> nested
          [] shape = "flat" -> FlatDoc(Some(1), Some(Word("exact")), p[1], p[2], p[3])
          [] OTHER -> [nested EXCEPT !.transaction = Some(UnderpaidBlob)]

\* What the three requests meet: the time of the verify call, the answer
\* of the node, the facilitator's answers to the settle call and to its
\* retry, and the handler's response.
ShapeEnvironments ==
    [ time : Times, rpc : VaryingRpcAnswers, first : SettleAnswers,
      second : SettleAnswers, handler : HandlerResponses ]

\* dispatch, lines 291-365, on a decoded header: the payload body, the
\* verify result, the settle results in order, and the response.
PaidOutcome(doc, reqs, sdk, env) ==
    LET payment_data == PayloadOf(doc)
        verify_result == verify_payment(payment_data, ToDict(reqs), sdk, env.time, env.rpc)
        first == settle_payment(env.first)
        second == settle_payment(env.second)
        settle_results ==
            IF ~IsValid(verify_result) THEN <<>>
            ELSE IF ~first.isObj \/ Succeeded(first) THEN <<first>>
            ELSE <<first, second>>
        last == settle_results[Len(settle_results)]
    IN  [ pc |-> "done",
          payment_data |-> payment_data,
          verify_result |-> Some(verify_result),
          settle_results |-> settle_results,
          response |->
            Some(IF ~IsValid(verify_result)
                 THEN create_payment_required_response(reqs, InvalidReasonOf(verify_result))
                 ELSE IF ~last.isObj
                 THEN create_payment_required_response(
                          reqs, Some(<<"Payment verification error: ",
                                       "object has no attribute 'get'">>))
                 ELSE IF ~Succeeded(last)
                 THEN create_payment_required_response(reqs, SettleErrorOf(last))
                 ELSE WithReceipt(env.handler, last)) ]

ShapeInit ==
    /\ routes = [k \in {WildcardKey} |-> ConfigOf(k)]
    /\ skip_paths = DefaultSkipPaths
    /\ pay_to = PayTo
    /\ sdk_available \in BOOLEAN
    /\ pc = "idle"
    /\ request = None
    /\ requirements = None
    /\ payment_payload = None
    /\ settle_result = None
    /\ response = None
    /\ raised = None
    /\ trace = <<>>
    /\ verify_calls = <<>>
    /\ settle_calls = <<>>
    /\ outbound = <<>>
    /\ rpc_url = MOVEMENT_RPC
    /\ facilitator_url = LocalFacilitatorUrl
    /\ clock = 1000
    /\ \E p \in ShapeProofs, env \in ShapeEnvironments :
         arguments = Some([proof |-> p, env |-> env])
    /\ calls = <<>>
    /\ task = [s \in Shapes |-> [pc |-> "dispatch"]]

\* The request of one shape is served, from the decoded header to the
\* response.
ShapeServed ==
    \E s \in Shapes :
        /\ task[s].pc = "dispatch"
        /\ task' = [task EXCEPT ![s] =
               PaidOutcome(ShapeDoc(s, Get(arguments).proof),
                           to_payment_requirements(<<"http", "://", "localhost", "/">>,
                                                   pay_to, routes[WildcardKey]),
                           sdk_available, Get(arguments).env)]
        /\ UNCHANGED <<config, pc, local, clock, arguments, calls>>

ShapeNext == ShapeServed

ShapeSpec == ShapeInit /\ [][ShapeNext]_vars

(***************************************************************************)
(* The route lookup on its own: _get_route_config applied to a method and  *)
(* a path, over registries in which several rules match at once.           *)
(***************************************************************************)
LookupKeys ==
    { WildcardKey,
      RouteKey("POST", <<"/", "api", "/", "premium">>),
      RouteKey("POST", <<"/", "api", "/", "premium", "/">>),
      RouteKey("GET", <<"/", "api", "/", "data", "/">>),
      RouteKey("GET", <<"/">>) }

\* A policy that tells which key it was registered under.
KeyedConfig(key) ==
    [RouteConfig("movement", AptosCoin, <<"1", "0", "0">>, "access") EXCEPT !.extra = Some(key)]

LookupRegistries == { [k \in K |-> KeyedConfig(k)] : K \in SUBSET LookupKeys }

LookupPaths ==
    { <<"/">>,
      <<"/", "/">>,
      <<"/", "api", "/", "premium">>,
      <<"/", "api", "/", "premium", "/">>,
      <<"/", "api", "/", "premium", "/", "/">>,
      <<"api", "/", "premium">>,
      <<"/", "api", "/", "data">>,
      <<"/", "other">> }

LookupArguments == [op : {"lookup"}, method : Methods, path : LookupPaths]

LookupInit ==
    /\ routes \in LookupRegistries
    /\ skip_paths = DefaultSkipPaths
    /\ pay_to = PayTo
    /\ sdk_available = TRUE
    /\ pc = "idle"
    /\ request = None
    /\ requirements = None
    /\ payment_payload = None
    /\ settle_result = None
    /\ response = None
    /\ raised = None
    /\ trace = <<>>
    /\ verify_calls = <<>>
    /\ settle_calls = <<>>
    /\ outbound = <<>>
    /\ rpc_url = MOVEMENT_RPC
    /\ facilitator_url = LocalFacilitatorUrl
    /\ clock = 0
    /\ arguments \in {Some(a) : a \in LookupArguments}
    /\ calls = <<>>
    /\ NoTasks

\* A call of _get_route_config.
LookupDirect ==
    /\ calls = <<>>
    /\ calls' = << [ op |-> "lookup",
                     method |-> Get(arguments).method,
                     path |-> Get(arguments).path,
                     result |-> get_route_config(routes, Get(arguments).method,
                                                 Get(arguments).path) ] >>
    /\ UNCHANGED <<config, pc, local, clock, arguments, task>>

LookupSpec == LookupInit /\ [][LookupDirect]_vars

(***************************************************************************)
(* Two requests in one event loop.  dispatch is a coroutine: a request     *)
(* runs from one await to the next without interleaving (verify_payment    *)
(* and settle_payment are plain calls), and the other request may run at   *)
(* each await: asyncio.sleep(1) and call_next(request).                    *)
(***************************************************************************)
Tasks == {1, 2}

\* The payloads the two requests carry, as decoded from their headers.
TaskProofs ==
    { PayloadObject(Some(b), None, Some(SignatureBlob)) : b \in {PaidBlob, MisdirectedBlob} }

\* The locals of one run of dispatch that has decoded its proof.
TaskStart(proof) ==
    [ pc |-> "dispatch",
      payment_data |-> proof,
      payment_reqs_dict |-> ToDict(to_payment_requirements(
                                <<"http", "://", "localhost", "/">>, PayTo,
                                ConfigOf(WildcardKey))),
      verify_calls |-> <<>>,
      settle_calls |-> <<>>,
      settle_result |-> None,
      response |-> None ]

ConcurrentInit ==
    /\ routes = [k \in {WildcardKey} |-> ConfigOf(k)]
    /\ skip_paths = DefaultSkipPaths
    /\ pay_to = PayTo
    /\ sdk_available \in BOOLEAN
    /\ pc = "idle"
    /\ request = None
    /\ requirements = None
    /\ payment_payload = None
    /\ settle_result = None
    /\ response = None
    /\ raised = None
    /\ trace = <<>>
    /\ verify_calls = <<>>
    /\ settle_calls = <<>>
    /\ outbound = <<>>
    /\ rpc_url = MOVEMENT_RPC
    /\ facilitator_url = LocalFacilitatorUrl
    /\ NoDirectCalls
    /\ task \in [Tasks -> {TaskStart(p) : p \in TaskProofs}]

\* The record of a service call made by a run of dispatch.
TaskCall(t, result) ==
    [ payment_payload |-> task[t].payment_data,
      payment_requirements |-> task[t].payment_reqs_dict,
      result |-> result ]

\* The 402 of a run of dispatch.
TaskChallenge(t, error) ==
    create_payment_required_response(
        to_payment_requirements(<<"http", "://", "localhost", "/">>, pay_to,
                                routes[WildcardKey]),
        error)

\* The locals after a settle call and the branch on its result; `last` is
\* set for the retry, whose failure ends the request.
AfterSettle(t, locals, result, last) ==
    LET settled == [locals EXCEPT !.settle_calls = Append(@, TaskCall(t, result)),
                                  !.settle_result = Some(result)]
    IN  IF ~result.isObj
        THEN [settled EXCEPT !.pc = "done",
                !.response = Some(TaskChallenge(t, Some(
                    <<"Payment verification error: ", "object has no attribute 'get'">>)))]
        ELSE IF Succeeded(result) THEN [settled EXCEPT !.pc = "call_next"]
        ELSE IF last
        THEN [settled EXCEPT !.pc = "done",
                !.response = Some(TaskChallenge(t, SettleErrorOf(result)))]
        ELSE [settled EXCEPT !.pc = "sleep"]

\* Mutant: the middleware remembers the verification of a proof, and a
\* request carrying a proof already verified skips its verify call.
TaskPayRemembering(t) ==
    /\ task[t].pc = "dispatch"
    /\ \E current_time \in Times, rpc \in RpcAnswers, remote \in SettleAnswers :
         LET seen == {u \in Tasks : /\ task[u].payment_data = task[t].payment_data
                                    /\ task[u].verify_calls # <<>>}
             verify_result ==
                 IF seen # {} THEN task[CHOOSE u \in seen : TRUE].verify_calls[1].result
                 ELSE verify_payment(task[t].payment_data, task[t].payment_reqs_dict,
                                     sdk_available, current_time, rpc)
             verified == [task[t] EXCEPT !.verify_calls =
                              IF seen # {} THEN <<>> ELSE <<TaskCall(t, verify_result)>>]
         IN  IF ~IsValid(verify_result)
             THEN /\ task' = [task EXCEPT ![t] =
                        [verified EXCEPT !.pc = "done",
                            !.response = Some(TaskChallenge(
                                t, InvalidReasonOf(verify_result)))]]
                  /\ outbound' = outbound
             ELSE /\ task' = [task EXCEPT ![t] =
                        AfterSettle(t, verified, settle_payment(remote), FALSE)]
                  /\ outbound' = outbound \o settle_payment_posts(
                                     task[t].payment_data, facilitator_url, remote)
    /\ UNCHANGED <<config, pc, request, requirements, payment_payload, settle_result,
                   response, raised, trace, verify_calls, settle_calls,
                   clock, arguments, calls>>

\* dispatch, lines 302-334: the verify call, the branch on its result, the
\* first settle call, up to the first await.
TaskPay(t) ==
    /\ task[t].pc = "dispatch"
    /\ \E current_time \in Times, rpc \in RpcAnswers, remote \in SettleAnswers :
         LET verify_result == verify_payment(task[t].payment_data,
                                             task[t].payment_reqs_dict,
                                             sdk_available, current_time, rpc)
             verified == [task[t] EXCEPT !.verify_calls = <<TaskCall(t, verify_result)>>]
             posts == verify_payment_posts(task[t].payment_data, sdk_available,
                                           rpc_url, rpc)
         IN  IF ~IsValid(verify_result)
             THEN /\ task' = [task EXCEPT ![t] =
                        [verified EXCEPT !.pc = "done",
                            !.response = Some(TaskChallenge(
                                t, InvalidReasonOf(verify_result)))]]
                  /\ outbound' = outbound \o posts
             ELSE /\ task' = [task EXCEPT ![t] =
                        AfterSettle(t, verified, settle_payment(remote), FALSE)]
                  /\ outbound' = outbound \o posts \o settle_payment_posts(
                                     task[t].payment_data, facilitator_url, remote)
    /\ UNCHANGED <<config, pc, request, requirements, payment_payload, settle_result,
                   response, raised, trace, verify_calls, settle_calls,
                   clock, arguments, calls>>

\* dispatch, lines 334-348: asyncio.sleep(1) is over; the retry and the
\* branch on its result.
TaskRetry(t) ==
    /\ task[t].pc = "sleep"
    /\ \E remote \in SettleAnswers :
         /\ task' = [task EXCEPT ![t] =
                AfterSettle(t, task[t], settle_payment(remote), TRUE)]
         /\ outbound' = outbound \o settle_payment_posts(
                            task[t].payment_data, facilitator_url, remote)
    /\ UNCHANGED <<config, pc, request, requirements, payment_payload, settle_result,
                   response, raised, trace, verify_calls, settle_calls,
                   clock, arguments, calls>>

\* dispatch, lines 355-365: call_next(request) returns and the receipt
\* header is set.
TaskHandlerReturns(t) ==
    /\ task[t].pc = "call_next"
    /\ \E handler_response \in HandlerResponses :
         task' = [task EXCEPT ![t] =
             [@ EXCEPT !.pc = "done",
                       !.response = Some(WithReceipt(handler_response,
                                                     Get(task[t].settle_result)))]]
    /\ UNCHANGED <<config, pc, local, clock, arguments, calls>>

\* dispatch, lines 355 and 367-382: call_next(request) raises.
TaskHandlerRaises(t) ==
    /\ task[t].pc = "call_next"
    /\ \E error \in HandlerErrors :
         task' = [task EXCEPT ![t] =
             [@ EXCEPT !.pc = "done",
                       !.response = Some(TaskChallenge(t, Some(
                           <<IF error = "ValueError" THEN "Invalid payment header: "
                             ELSE "Payment verification error: ", "handler failed">>)))]]
    /\ UNCHANGED <<config, pc, local, clock, arguments, calls>>

\* What the event loop may run next for request t.
TaskStep(t) ==
    \/ TaskPay(t)
    \/ TaskRetry(t)
    \/ TaskHandlerReturns(t)
    \/ TaskHandlerRaises(t)

ConcurrentNext ==
    \/ \E t \in Tasks : TaskPay(t)
    \/ \E t \in Tasks : TaskRetry(t)
    \/ \E t \in Tasks : TaskHandlerReturns(t)
    \/ \E t \in Tasks : TaskHandlerRaises(t)

ConcurrentSpec == ConcurrentInit /\ [][ConcurrentNext]_vars

\* The middleware of an application with one route: the wildcard of the
\* sentiment agent, or one exact route.
FairInit ==
    /\ Init
    /\ DOMAIN routes \in { {WildcardKey},
                            {RouteKey("GET", <<"/", "api", "/", "data", "/">>)} }

\* The event loop runs a coroutine that can go on: every outbound call has
\* a timeout (10 s, 30 s), the sleep is 1 s, and the handler ends.
FairSpec == FairInit /\ [][Next]_vars /\ WF_vars(Next)

(***************************************************************************)
(* The middleware as any caller may construct it.  RouteConfig.__init__    *)
(* and X402PaywallMiddleware.__init__ store their arguments as given: no   *)
(* amount, asset or payee is looked at.                                    *)
(***************************************************************************)
\* The RouteConfigs of the constructor's `routes` argument: the policy of
\* the sentiment agent, and policies with an amount that is no number, a
\* negative amount, or an empty asset.
ConstructibleConfigs ==
    { ConfigOf(WildcardKey),
      RouteConfig("movement", AptosCoin, <<"1", "e", "3">>, "Scientific amount"),
      RouteConfig("movement", AptosCoin, <<"-", "5">>, "Negative amount"),
      RouteConfig("movement", <<>>, <<"1", "0", "0">>, "No asset") }

\* The `pay_to` argument: an address, or the empty string.
ConstructiblePayees == {PayTo, ""}

\* X402PaywallMiddleware.__init__, lines 96-129, with the default skip list.
ConstructionInit ==
    /\ routes \in { [k \in {WildcardKey} |-> c] : c \in ConstructibleConfigs }
    /\ skip_paths = DefaultSkipPaths
    /\ pay_to \in ConstructiblePayees
    /\ sdk_available \in BOOLEAN
    /\ pc = "idle"
    /\ request = None
    /\ requirements = None
    /\ payment_payload = None
    /\ settle_result = None
    /\ response = None
    /\ raised = None
    /\ trace = <<>>
    /\ verify_calls = <<>>
    /\ settle_calls = <<>>
    /\ outbound = <<>>
    /\ rpc_url = MOVEMENT_RPC
    /\ facilitator_url = LocalFacilitatorUrl
    /\ NoDirectCalls
    /\ NoTasks

ConstructionSpec == ConstructionInit /\ [][Next]_vars

(***************************************************************************)
(* A request that its client gives up.  The host cancels the task of the   *)
(* request; asyncio raises CancelledError in a coroutine only where it     *)
(* awaits, and CancelledError is no Exception, so the except clauses of    *)
(* dispatch let it pass.  settle_payment is a plain call of requests.post: *)
(* between issuing the POST and its return dispatch awaits nothing.        *)
(***************************************************************************)
\* Mutant: the settle call is awaited (an asynchronous HTTP client), so the
\* task can be cancelled while the POST is in flight.
AwaitPointsWithSettle == {"sleep", "call_next", "settle_issued"}

\* The awaits of dispatch past the header checks: asyncio.sleep(1), line
\* 334, and call_next(request), line 355.
AwaitPoints == {"sleep", "call_next"}

\* The locals of the run, the settle calls it has issued and their results,
\* and whether the host has cancelled it.
CancelInit ==
    /\ routes = [k \in {WildcardKey} |-> ConfigOf(k)]
    /\ skip_paths = DefaultSkipPaths
    /\ pay_to = PayTo
    /\ sdk_available \in BOOLEAN
    /\ pc = "idle"
    /\ request = None
    /\ requirements = None
    /\ payment_payload = None
    /\ settle_result = None
    /\ response = None
    /\ raised = None
    /\ trace = <<>>
    /\ verify_calls = <<>>
    /\ settle_calls = <<>>
    /\ outbound = <<>>
    /\ rpc_url = MOVEMENT_RPC
    /\ facilitator_url = LocalFacilitatorUrl
    /\ NoDirectCalls
    /\ task \in { [ pc |-> "dispatch", payment_data |-> p, cancel_requested |-> FALSE,
                    issued |-> 0, results |-> <<>>, response |-> None ] :
                  p \in TaskProofs }

\* The client disconnects and the host cancels the task, at any time while
\* the request is being handled.
CancelRequested ==
    /\ task.pc \notin {"done", "cancelled"}
    /\ ~task.cancel_requested
    /\ task' = [task EXCEPT !.cancel_requested = TRUE]
    /\ UNCHANGED <<config, pc, local, clock, arguments, calls>>

\* CancelledError is raised at the await where the task stands, and leaves
\* dispatch.
CancelDelivered ==
    /\ task.cancel_requested
    /\ task.pc \in AwaitPoints
    /\ task' = [task EXCEPT !.pc = "cancelled"]
    /\ UNCHANGED <<config, pc, local, clock, arguments, calls>>

\* dispatch, lines 302-325: the verify call, the branch on its result, and
\* the POST of the first settle call.
RunVerifyAndIssue ==
    /\ task.pc = "dispatch"
    /\ \E current_time \in Times, rpc \in RpcAnswers :
         LET verify_result ==
                 verify_payment(task.payment_data,
                                ToDict(to_payment_requirements(
                                    <<"http", "://", "localhost", "/">>, pay_to,
                                    routes[WildcardKey])),
                                sdk_available, current_time, rpc)
         IN  IF ~IsValid(verify_result)
             THEN task' = [task EXCEPT !.pc = "done",
                              !.response = Some(create_payment_required_response(
                                  to_payment_requirements(
                                      <<"http", "://", "localhost", "/">>, pay_to,
                                      routes[WildcardKey]),
                                  InvalidReasonOf(verify_result)))]
             ELSE task' = [task EXCEPT !.pc = "settle_issued", !.issued = @ + 1]
    /\ UNCHANGED <<config, pc, local, clock, arguments, calls>>

\* requests.post of settle_payment returns or times out (line 384), and
\* dispatch branches on the result (lines 331, 341).
SettleReturns ==
    /\ task.pc = "settle_issued"
    /\ \E remote \in SettleAnswers :
         LET result == settle_payment(remote)
             challenge(error) ==
                 Some(create_payment_required_response(
                     to_payment_requirements(<<"http", "://", "localhost", "/">>,
                                             pay_to, routes[WildcardKey]),
                     error))
             settled == [task EXCEPT !.results = Append(@, result)]
         IN  task' =
               IF ~result.isObj
               THEN [settled EXCEPT !.pc = "done",
                        !.response = challenge(Some(<<"Payment verification error: ",
                                                      "object has no attribute 'get'">>))]
               ELSE IF Succeeded(result) THEN [settled EXCEPT !.pc = "call_next"]
               ELSE IF task.issued = 1 THEN [settled EXCEPT !.pc = "sleep"]
               ELSE [settled EXCEPT !.pc = "done",
                        !.response = challenge(SettleErrorOf(result))]
    /\ UNCHANGED <<config, pc, local, clock, arguments, calls>>

\* dispatch, lines 334-335: the sleep is over and the retry is posted.
RetryIssued ==
    /\ task.pc = "sleep"
    /\ ~task.cancel_requested
    /\ task' = [task EXCEPT !.pc = "settle_issued", !.issued = @ + 1]
    /\ UNCHANGED <<config, pc, local, clock, arguments, calls>>

\* dispatch, lines 355-365: the handler returns.
RunHandlerReturns ==
    /\ task.pc = "call_next"
    /\ ~task.cancel_requested
    /\ \E handler_response \in HandlerResponses :
         task' = [task EXCEPT !.pc = "done",
                     !.response = Some(WithReceipt(handler_response,
                                                   task.results[Len(task.results)]))]
    /\ UNCHANGED <<config, pc, local, clock, arguments, calls>>

CancelNext ==
    \/ CancelRequested
    \/ CancelDelivered
    \/ RunVerifyAndIssue
    \/ SettleReturns
    \/ RetryIssued
    \/ RunHandlerReturns

\* requests.post has timeout=30: an issued call returns.
CancelSpec == CancelInit /\ [][CancelNext]_vars /\ WF_vars(SettleReturns)

(***************************************************************************)
(* What the claims speak of.                                               *)
(***************************************************************************)
\* The positions of `op` in the calls made for the request.
Positions(op) == {i \in 1..Len(trace) : trace[i] = op}
HandlerCalls == Cardinality(Positions("call_next"))

\* The k-th settle call is the one recorded at the k-th "settle" of trace.
SettleNumber(i) == Cardinality({j \in 1..i : trace[j] = "settle"})

\* A settlement result that reports success, and one that reports failure.
ReportsSuccess(result) == result.isObj /\ result.success
ReportsFailure(result) == result.isObj /\ ~result.success

\* The response is a 402 challenge of the middleware.
IsChallenge ==
    /\ IsSome(response)
    /\ Get(response).status = 402
    /\ Get(response).source = "middleware"
    /\ IsSome(Get(response).challenge)

ChallengeError == Get(Get(response).challenge).error

\* The request is on a path outside the skip list that a route protects.
OnProtectedRoute ==
    /\ IsSome(request)
    /\ ~\E i \in 1..Len(skip_paths) : Contains(Get(request).path, skip_paths[i])
    /\ IsSome(RouteConfigOf)

\* C1: on a protected route the handler is invoked only after a verify call
\* that returned isValid = true and a later settle call that returned
\* success = true; every settle call comes after the verify call.
C1_PaidBeforeHandler ==
    OnProtectedRoute =>
        /\ \A h \in Positions("call_next") :
             \E v \in Positions("verify"), t \in Positions("settle") :
                /\ v < t /\ t < h
                /\ verify_calls[1].result.isValid
                /\ ReportsSuccess(settle_calls[SettleNumber(t)].result)
        /\ \A t \in Positions("settle") : \E v \in Positions("verify") : v < t

C1_Witness ==
    /\ OnProtectedRoute
    /\ pc = "done"
    /\ HandlerCalls = 1
    /\ Len(settle_calls) = 2

C3_VerifyFailureIsFinal ==
    (Len(verify_calls) >= 1 /\ ~verify_calls[1].result.isValid) =>
        /\ settle_calls = <<>>
        /\ HandlerCalls = 0
        /\ pc = "done"
        /\ IsChallenge
        /\ ChallengeError = verify_calls[1].result.invalidReason

C3_Witness ==
    /\ Len(verify_calls) = 1
    /\ ~verify_calls[1].result.isValid
    /\ Contains(Get(verify_calls[1].result.invalidReason), <<"Amount insufficient: required ">>)

\* C4: when both settlement attempts fail the response is a 402 whose error
\* is the error of the settlement result, and the handler is not invoked.
C4_SettleFailureIsFinal ==
    (Len(settle_calls) = 2 /\ ~ReportsSuccess(settle_calls[2].result)) =>
        /\ pc = "done"
        /\ IsChallenge
        /\ HandlerCalls = 0
        /\ (ReportsFailure(settle_calls[2].result) /\ IsSome(settle_calls[2].result.error)) =>
             ChallengeError = settle_calls[2].result.error

C4_Witness ==
    /\ Len(settle_calls) = 2
    /\ ReportsFailure(settle_calls[1].result)
    /\ ReportsFailure(settle_calls[2].result)
    /\ settle_calls[2].result.error = Some(<<"SEQUENCE_NUMBER_TOO_OLD">>)
    /\ settle_calls[1].result.error # settle_calls[2].result.error

\* C5: on every path through dispatch the handler is invoked at most once.
C5_HandlerAtMostOnce == HandlerCalls <= 1

C5_Witness ==
    /\ pc = "done"
    /\ HandlerCalls = 1
    /\ IsSome(response)
    /\ Get(response).source = "handler"

\* The request carries no proof: both proof headers are absent or empty.
CarriesNoProof ==
    \A n \in {"x-payment", "x-402"} :
        Get(request).headers[n] = None \/ Get(Get(request).headers[n]).enc = "empty"

\* u is scheme://host + path of the request, the path cut at its first "?",
\* the scheme and the host taken from the proxy headers or defaulted.
IsAbsoluteUrlOfRequest(u) ==
    LET r == Get(request)
        scheme == IF r.headers["x-forwarded-proto"] = None THEN <<"http">>
                  ELSE r.headers["x-forwarded-proto"][1]
        host == IF r.headers["host"] = None THEN <<"localhost">> ELSE r.headers["host"][1]
    IN  \E n \in 0..Len(r.path) :
           /\ \A i \in 1..n : r.path[i] # "?"
           /\ n = Len(r.path) \/ r.path[n + 1] = "?"
           /\ u = scheme \o <<"://">> \o host \o SubSeq(r.path, 1, n)

\* C6: a request without proof to a protected route is answered 402 with
\* exactly one PaymentRequirements whose resource is the request's absolute
\* URL and with no error field; no verify and no settle call is made and
\* the handler is not invoked.
C6_NoProofChallenge ==
    (OnProtectedRoute /\ CarriesNoProof /\ pc # "dispatch") =>
        /\ pc = "done"
        /\ IsChallenge
        /\ Len(Get(Get(response).challenge).accepts) = 1
        /\ IsAbsoluteUrlOfRequest(Get(Get(response).challenge).accepts[1].resource)
        /\ ChallengeError = None
        /\ verify_calls = <<>>
        /\ settle_calls = <<>>
        /\ trace = <<>>

C6_Witness ==
    /\ OnProtectedRoute
    /\ CarriesNoProof
    /\ pc = "done"
    /\ Contains(Get(request).path, <<"?">>)
    /\ Get(request).headers["x-payment"] # None

\* The method and path of the request are a key of the registry, the path
\* taken with or without its trailing slash.
IsRegistered ==
    \E k \in DOMAIN routes :
       /\ k.method = Upper(Get(request).method)
       /\ RStrip(k.path, "/") = RStrip(Get(request).path, "/")

\* No rule of the route lookup matches the request.
MatchesNoRoute ==
    LET method == Upper(Get(request).method)
        path == NormalizePath(Get(request).path)
    IN  /\ RouteKey(method, path) \notin DOMAIN routes
        /\ RouteKey(method, path \o <<"/">>) \notin DOMAIN routes
        /\ ~(method = "POST" /\ RouteKey("POST", <<"/">>) \in DOMAIN routes)

\* The request went to the handler with no payment check.
ForwardedUnchecked ==
    /\ pc \in {"call_next", "handler", "done"}
    /\ ~IsChallenge
    /\ requirements = None
    /\ verify_calls = <<>>
    /\ settle_calls = <<>>
    /\ pc = "done" => HandlerCalls = 1

\* C7 as stated: a request whose method and path are not registered is
\* forwarded with no challenge and no verify or settle call.
C7_UnregisteredForwarded ==
    (IsSome(request) /\ ~IsRegistered /\ pc # "dispatch") => ForwardedUnchecked

\* C7, amended: a request that no rule of the route lookup matches (no key
\* for its method and normalised path, none with a trailing slash, and no
\* `POST /` entry for a POST) is forwarded with no challenge and no verify
\* or settle call.
C7_UnmatchedForwarded ==
    (IsSome(request) /\ MatchesNoRoute /\ pc # "dispatch") => ForwardedUnchecked

C7_Witness ==
    /\ IsSome(request)
    /\ MatchesNoRoute
    /\ routes # <<>>
    /\ Get(request).headers["x-payment"] # None
    /\ pc = "done"
    /\ IsSome(response)

\* The path of the request ends with or contains an entry of the skip list.
SkipListed ==
    \E i \in 1..Len(skip_paths) :
        \/ EndsWith(Get(request).path, skip_paths[i])
        \/ Contains(Get(request).path, skip_paths[i])

\* C8: a request on a skip-listed path is forwarded with no payment check,
\* whatever its method and whatever route would match it.
C8_SkipListFirst ==
    (IsSome(request) /\ SkipListed /\ pc # "dispatch") => ForwardedUnchecked

C8_Witness ==
    /\ IsSome(request)
    /\ SkipListed
    /\ Get(request).path # <<"/", ".well-known", "/", "agent.json">>
    /\ Get(request).method = "POST"
    /\ WildcardKey \in DOMAIN routes
    /\ Get(request).headers["x-payment"] = None
    /\ pc = "done"
    /\ IsSome(response)

\* The proof header dispatch reads: x-payment, or x-402 when that is absent
\* or empty.
ProofHeaderRead ==
    LET h == Get(request).headers
    IN  IF h["x-payment"] # None /\ Get(h["x-payment"]).enc # "empty"
        THEN Get(h["x-payment"]) ELSE Get(h["x-402"])

\* C9: whatever the proof header holds, dispatch either gets the decoded
\* document and goes on, or answers 402 with the decode failure as error;
\* no exception leaves dispatch, and after a decode failure (or a document
\* that is no object) the handler is not invoked.
C9_DecodeIsTotal ==
    (OnProtectedRoute /\ ~CarriesNoProof /\ pc # "dispatch") =>
        /\ raised = None
        /\ ProofHeaderRead.enc = "json" => payment_payload = Some(ProofHeaderRead.doc)
        /\ ProofHeaderRead.enc # "json" =>
             /\ pc = "done"
             /\ IsChallenge
             /\ IsSome(ChallengeError)
             /\ StartsWith(Get(ChallengeError),
                           <<"Invalid payment header: ", "Failed to decode payment header: ">>)
             /\ payment_payload = None
             /\ trace = <<>>
        /\ (ProofHeaderRead.enc = "json" /\ ProofHeaderRead.doc.type # "object") =>
             /\ pc = "done"
             /\ IsChallenge
             /\ IsSome(ChallengeError)
             /\ trace = <<>>

C9_Witness ==
    /\ OnProtectedRoute
    /\ ~CarriesNoProof
    /\ ProofHeaderRead.enc = "not_utf8"
    /\ pc = "done"

\* What raised while the proof was processed, if anything: the decoding, the
\* reading of the decoded document, or the reading of a settle result.
ProcessingRaised ==
    \/ ProofHeaderRead.enc # "json"
    \/ IsSome(payment_payload) /\ IsSome(PreVerifyError(Get(payment_payload)))
    \/ settle_calls # <<>> /\ ~settle_calls[Len(settle_calls)].result.isObj

\* C10: an exception raised while a protected request with a proof header
\* is processed is answered by a 402 carrying its text; it never leaves
\* dispatch, and the handler is not invoked.
C10_FailClosed ==
    (OnProtectedRoute /\ ~CarriesNoProof /\ pc # "dispatch") =>
        /\ raised = None
        /\ ProcessingRaised =>
             /\ pc = "done"
             /\ IsChallenge
             /\ IsSome(ChallengeError)
             /\ \/ StartsWith(Get(ChallengeError), <<"Invalid payment header: ">>)
                \/ StartsWith(Get(ChallengeError), <<"Payment verification error: ">>)
             /\ Len(Get(ChallengeError)) >= 2
             /\ HandlerCalls = 0

C10_Witness ==
    /\ OnProtectedRoute
    /\ ~CarriesNoProof
    /\ pc = "done"
    /\ Len(settle_calls) = 2
    /\ ~settle_calls[2].result.isObj
    /\ IsChallenge

(***************************************************************************)
(* The direct calls of verify_payment.                                     *)
(***************************************************************************)
VerifyCalls == {i \in 1..Len(calls) : calls[i].op = "verify"}

\* Those whose requirements are such as a server builds from a RouteConfig.
ServerVerifyCalls ==
    {i \in VerifyCalls : calls[i].payment_requirements \in DirectRequirements}

\* The transaction string of a call's payload: `transaction`, or
\* `transactionBcsBase64` when that is absent or empty.
CarriedBlob(c) ==
    LET p == c.payment_payload
    IN  IF p.transaction # None /\ p.transaction[1].kind # "empty"
        THEN p.transaction ELSE p.transactionBcsBase64

\* The string decodes to a transaction.
CarriesTransaction(c) ==
    /\ c.payment_payload.isObj
    /\ CarriedBlob(c) # None
    /\ CarriedBlob(c)[1].kind = "bytes"
    /\ CarriedBlob(c)[1].tx.deserializes

DecodedTransaction(c) == CarriedBlob(c)[1].tx

\* The transaction calls a coin-transfer function with a recipient and an
\* amount.
CarriesTransfer(c) ==
    /\ CarriesTransaction(c)
    /\ \/ Contains(DecodedTransaction(c).function, <<"coin", "::", "transfer">>)
       \/ Contains(DecodedTransaction(c).function, <<"aptos_account", "::", "transfer">>)
    /\ Len(DecodedTransaction(c).arguments) >= 2

DecodedRecipient(c) == DecodedTransaction(c).arguments[1].text

\* The amount is an integer, or a string of decimal digits.
AmountParses(c) ==
    LET arg == DecodedTransaction(c).arguments[2]
    IN  arg.type = "str" => (arg.digits # <<>> /\ \A k \in 1..Len(arg.digits) :
                                arg.digits[k] \in {"0", "1", "2", "3", "4", "5", "6", "7", "8", "9"})

DecodedAmount(c) ==
    LET arg == DecodedTransaction(c).arguments[2]
    IN  IF arg.type = "str" THEN DigitsValue(arg.digits) ELSE arg.value

RequiredAmount(c) == DigitsValue(c.payment_requirements.maxAmountRequired)

RecipientIsPayee(c) ==
    Lower(DecodedRecipient(c)) = Lower(c.payment_requirements.payTo)

\* The expiration of the transaction, if it has one, lies in the window
\* from the time of the call to maxTimeoutSeconds later.
InExpiryWindow(c) ==
    LET E == DecodedTransaction(c).expiration
    IN  E # None =>
          /\ c.time <= E[1]
          /\ E[1] <= c.time + c.payment_requirements.maxTimeoutSeconds

Rejected(c) == ~Get(c.result).isValid
RejectedFor(c, reason) ==
    /\ Rejected(c)
    /\ Get(c.result).invalidReason # None
    /\ StartsWith(Get(Get(c.result).invalidReason), reason)

\* C11: verify_payment rejects every transfer whose decoded recipient
\* differs, case-insensitively, from the requirement's payTo, naming the
\* recipient mismatch (where the transaction is decoded and no earlier check
\* has rejected it); and what the client declares in other fields of the payload does not change the result.
C11_MisdirectedRejected ==
    \A i \in ServerVerifyCalls :
        LET c == calls[i]
        IN  /\ (CarriesTransfer(c) /\ ~RecipientIsPayee(c)) =>
                 /\ Rejected(c)
                 /\ (sdk_available /\ InExpiryWindow(c) /\ AmountParses(c)) =>
                      RejectedFor(c, <<"Recipient mismatch: expected ">>)
            /\ \A rpc \in DirectRpcAnswers :
                 c.posts = verify_payment_posts(Undeclared(c.payment_payload),
                                                sdk_available, rpc_url, rpc) =>
                   Get(c.result) = verify_payment(Undeclared(c.payment_payload),
                                                  c.payment_requirements,
                                                  sdk_available, c.time, rpc)

\* C12: verify_payment rejects every transfer whose decoded amount is less
\* than maxAmountRequired, as insufficient where the transaction is decoded
\* and recipient and expiry are right, and accepts a transfer of exactly maxAmountRequired whose
\* recipient and expiry are right.
C12_UnderpaidRejected ==
    \A i \in ServerVerifyCalls :
        LET c == calls[i]
        IN  /\ (CarriesTransfer(c) /\ AmountParses(c)
                  /\ DecodedAmount(c) < RequiredAmount(c)) =>
                 /\ Rejected(c)
                 /\ (sdk_available /\ RecipientIsPayee(c) /\ InExpiryWindow(c)) =>
                      RejectedFor(c, <<"Amount insufficient: required ">>)
            /\ (sdk_available /\ CarriesTransfer(c) /\ AmountParses(c)
                  /\ DecodedAmount(c) = RequiredAmount(c)
                  /\ RecipientIsPayee(c) /\ InExpiryWindow(c)) =>
                 Get(c.result).isValid

\* C13: where the transaction is decoded (the structured path), one with an
\* expiration E checked at time T is rejected as expired if E < T, rejected
\* as exceeding the maximum timeout if E > T + maxTimeoutSeconds, and is not
\* rejected by the expiry check if T <= E <= T + maxTimeoutSeconds or if it
\* has no expiration.
C13_ExpiryWindow ==
    \A i \in ServerVerifyCalls :
        LET c == calls[i]
            E == DecodedTransaction(c).expiration
            T == c.time
            M == c.payment_requirements.maxTimeoutSeconds
        IN  (sdk_available /\ CarriesTransaction(c)) =>
              /\ (E # None /\ E[1] < T) =>
                   Get(c.result) = Invalid(<<"Transaction has expired">>)
              /\ (E # None /\ E[1] > T + M) =>
                   Get(c.result) =
                       Invalid(<<"Transaction expiration exceeds maximum timeout">>)
              /\ (E = None \/ (T <= E[1] /\ E[1] <= T + M)) =>
                   /\ ~RejectedFor(c, <<"Transaction has expired">>)
                   /\ ~RejectedFor(c, <<"Transaction expiration exceeds maximum timeout">>)
                   /\ (CarriesTransfer(c) /\ RecipientIsPayee(c) /\ AmountParses(c)
                         /\ DecodedAmount(c) >= RequiredAmount(c)) =>
                        Get(c.result).isValid

\* Both boundaries: a transaction expiring at 1003 under a timeout of 2 is
\* accepted at 1001 (E = T + 2) and again at 1003 (E = T).
C13_Witness ==
    /\ sdk_available
    /\ Len(calls) = 2
    /\ \A i \in {1, 2} :
         /\ calls[i].op = "verify"
         /\ CarriesTransaction(calls[i])
         /\ DecodedTransaction(calls[i]).expiration = <<1003>>
         /\ calls[i].payment_requirements.maxTimeoutSeconds = 2
         /\ Get(calls[i].result).isValid
    /\ calls[1].time = 1001
    /\ calls[2].time = 1003

(***************************************************************************)
(* The responses of dispatch.                                              *)
(***************************************************************************)
\* The request was paid for and the handler has answered it.
PaidAndAnswered ==
    /\ OnProtectedRoute
    /\ pc = "done"
    /\ IsSome(response)
    /\ Get(response).source = "handler"

\* C14: on the success path the response is the handler's own, its status
\* code and body unchanged, with one addition: the X-PAYMENT-RESPONSE header,
\* which decodes to the settlement result that reported success.
C14_ReceiptOnly ==
    PaidAndAnswered =>
        /\ \E h \in HandlerResponses :
             /\ Get(response).status = h.status
             /\ Get(response).body = h.body
             /\ Get(response).challenge = h.challenge
        /\ Get(response).receipt # None
        /\ settle_calls # <<>>
        /\ DecodeReceipt(Get(Get(response).receipt))
             = settle_calls[Len(settle_calls)].result
        /\ ReportsSuccess(settle_calls[Len(settle_calls)].result)
        /\ HandlerCalls = 1

C14_Witness ==
    /\ PaidAndAnswered
    /\ Get(response).status = 404
    /\ Get(response).body = "not found"
    /\ Len(settle_calls) = 2
    /\ Get(response).receipt # None

\* C15: every 402 of the middleware has x402Version 1 and exactly one
\* PaymentRequirements in accepts: scheme "exact", payTo the configured
\* payee, resource the request's absolute URL, the other fields those of the
\* RouteConfig that matched the request.
C15_ChallengeShape ==
    IsChallenge =>
        /\ IsSome(request)
        /\ IsSome(RouteConfigOf)
        /\ LET body == Get(Get(response).challenge)
               matched == Get(RouteConfigOf)
           IN  /\ body.x402Version = 1
               /\ Len(body.accepts) = 1
               /\ body.accepts[1].scheme = "exact"
               /\ body.accepts[1].payTo = pay_to
               /\ IsAbsoluteUrlOfRequest(body.accepts[1].resource)
               /\ body.accepts[1].network = matched.network
               /\ body.accepts[1].asset = matched.asset
               /\ body.accepts[1].maxAmountRequired = matched.max_amount_required
               /\ body.accepts[1].description = matched.description
               /\ body.accepts[1].mimeType = matched.mime_type
               /\ body.accepts[1].maxTimeoutSeconds = matched.max_timeout_seconds

\* A 402 after two failed settlements, on a route with a policy of its own.
C15_Witness ==
    /\ IsChallenge
    /\ Len(settle_calls) = 2
    /\ Get(Get(response).challenge).accepts[1].mimeType = <<"text/plain">>
    /\ Get(Get(response).challenge).accepts[1].maxTimeoutSeconds = 60
    /\ IsSome(ChallengeError)

(***************************************************************************)
(* The route lookup.                                                       *)
(***************************************************************************)
\* The length of the path without its trailing slashes.
TrailingSlashCut(path) ==
    CHOOSE n \in 0..Len(path) :
        /\ \A k \in (n + 1)..Len(path) : path[k] = "/"
        /\ n = 0 \/ path[n] # "/"

\* The path without trailing slashes, the root staying "/", and with a
\* leading slash.
Normalized(path) ==
    LET body == SubSeq(path, 1, TrailingSlashCut(path))
    IN  IF body = <<>> THEN <<"/">>
        ELSE IF body[1] # "/" THEN <<"/">> \o body
        ELSE body

\* C16: the lookup returns the RouteConfig of the first rule that matches:
\* the key `METHOD <normalized path>`, then that key with a trailing slash,
\* then `POST /` for any POST request; and no config when none matches.
C16_LookupOrder ==
    \A i \in 1..Len(calls) :
        calls[i].op = "lookup" =>
            LET exact == [method |-> Upper(calls[i].method),
                          path |-> Normalized(calls[i].path)]
                slash == [method |-> Upper(calls[i].method),
                          path |-> Normalized(calls[i].path) \o <<"/">>]
                root == [method |-> "POST", path |-> <<"/">>]
            IN  calls[i].result =
                  IF exact \in DOMAIN routes THEN <<routes[exact]>>
                  ELSE IF slash \in DOMAIN routes THEN <<routes[slash]>>
                  ELSE IF Upper(calls[i].method) = "POST" /\ root \in DOMAIN routes
                  THEN <<routes[root]>>
                  ELSE <<>>

\* All three rules match a POST to /api/premium// and the exact key wins.
C16_Witness ==
    /\ Len(calls) = 1
    /\ calls[1].op = "lookup"
    /\ calls[1].method = "post"
    /\ calls[1].path = <<"/", "api", "/", "premium", "/", "/">>
    /\ DOMAIN routes = LookupKeys
    /\ calls[1].result = <<routes[[method |-> "POST", path |-> <<"/", "api", "/", "premium">>]]>>

(***************************************************************************)
(* Verification called again.                                              *)
(***************************************************************************)
\* A verify call leaves the service and what it was called with as they
\* were: every call so far was given the very dicts the caller still holds,
\* and the service's fields are those of its construction.
VerifyChangesNothing ==
    /\ \A i \in VerifyCalls :
         /\ calls[i].payment_payload = Get(arguments).payment_payload
         /\ calls[i].payment_requirements = Get(arguments).payment_requirements
    /\ VerifyCalls # {} =>
         /\ rpc_url = MOVEMENT_RPC
         /\ facilitator_url = LocalFacilitatorUrl

\* Where the time of the call stands to the expiration of the transaction,
\* on the path that decodes it.
ExpiryStanding(c) ==
    IF sdk_available /\ CarriesTransaction(c) /\ DecodedTransaction(c).expiration # None
    THEN IF DecodedTransaction(c).expiration[1] < c.time THEN "after"
         ELSE IF DecodedTransaction(c).expiration[1]
                   > c.time + c.payment_requirements.maxTimeoutSeconds
         THEN "early"
         ELSE "within"
    ELSE "none"

\* C17 as stated: two verify calls with the same payload and the same
\* requirements have the same result, and a verify call changes no state of
\* the service or of its arguments.
C17_VerifyIdempotent ==
    /\ \A i, j \in VerifyCalls :
         (/\ calls[i].payment_payload = calls[j].payment_payload
          /\ calls[i].payment_requirements = calls[j].payment_requirements)
            => calls[i].result = calls[j].result
    /\ VerifyChangesNothing

\* C17, amended: two verify calls with the same payload and the same
\* requirements have the same result when the time of both calls stands in
\* the same relation to the transaction's expiry window and the RPC node
\* answers both alike; and a verify call changes no state of the service or
\* of its arguments.
C17_VerifyIdempotentInWindow ==
    /\ \A i, j \in VerifyCalls :
         (/\ calls[i].payment_payload = calls[j].payment_payload
          /\ calls[i].payment_requirements = calls[j].payment_requirements
          /\ ExpiryStanding(calls[i]) = ExpiryStanding(calls[j])
          /\ calls[i].posts = calls[j].posts)
            => calls[i].result = calls[j].result
    /\ VerifyChangesNothing

\* The same transaction, expiring at 1003, verified at 1000 and again at
\* 1002 with the same result.
C17_Witness ==
    /\ sdk_available
    /\ Len(calls) = 2
    /\ \A i \in {1, 2} :
         /\ calls[i].op = "verify"
         /\ CarriesTransfer(calls[i])
         /\ DecodedTransaction(calls[i]).expiration = <<1003>>
         /\ calls[i].payment_requirements.maxTimeoutSeconds = 600
    /\ calls[1].time = 1000
    /\ calls[2].time = 1002
    /\ calls[1].result = calls[2].result
    /\ Get(calls[1].result).isValid

(***************************************************************************)
(* Requests carrying the same proof.                                       *)
(***************************************************************************)
\* Request t has made its own service calls for its own proof: one verify
\* call once it is past the start, no settle call after a failed
\* verification, else one settle call and a second after a reported failure
\* of the first and its sleep.
RunsOwnCalls(t) ==
    LET r == task[t]
    IN  /\ r.pc # "dispatch" =>
             /\ Len(r.verify_calls) = 1
             /\ r.verify_calls[1].payment_payload = r.payment_data
        /\ r.pc = "dispatch" => (r.verify_calls = <<>> /\ r.settle_calls = <<>>)
        /\ \A k \in 1..Len(r.settle_calls) :
             r.settle_calls[k].payment_payload = r.payment_data
        /\ (r.verify_calls # <<>> /\ ~r.verify_calls[1].result.isValid) =>
             r.settle_calls = <<>>
        /\ (r.verify_calls # <<>> /\ r.verify_calls[1].result.isValid) =>
             /\ Len(r.settle_calls) \in {1, 2}
             /\ r.pc = "sleep" =>
                  (Len(r.settle_calls) = 1 /\ ReportsFailure(r.settle_calls[1].result))
             /\ Len(r.settle_calls) = 2 => ReportsFailure(r.settle_calls[1].result)
             /\ (r.pc # "sleep" /\ ReportsFailure(r.settle_calls[1].result)) =>
                  Len(r.settle_calls) = 2

\* The response of request t is the outcome of its own calls: the 402 with
\* the reason of its own verification or of its own last settlement, or the
\* handler's response with the receipt of its own last settlement.
OwnOutcome(t) ==
    LET r == task[t]
        verified == r.verify_calls[1].result
        settled == r.settle_calls[Len(r.settle_calls)].result
        error == Get(Get(r.response).challenge).error
    IN  r.pc = "done" =>
          /\ r.response # None
          /\ ~verified.isValid =>
               /\ Get(r.response).status = 402
               /\ error = IF verified.invalidReason # None THEN verified.invalidReason
                          ELSE <<<<"Invalid payment">>>>
          /\ (verified.isValid /\ ReportsFailure(settled)) =>
               /\ Get(r.response).status = 402
               /\ error = IF settled.error # None THEN settled.error
                          ELSE <<<<"Settlement failed">>>>
          /\ (verified.isValid /\ ReportsSuccess(settled)) =>
               \/ /\ Get(r.response).status = 402
                  /\ EndsWith(Get(error), <<"handler failed">>)
               \/ /\ Get(r.response).receipt # None
                  /\ DecodeReceipt(Get(Get(r.response).receipt)) = settled
          /\ (verified.isValid /\ ~settled.isObj) => Get(r.response).status = 402

\* C18: of two requests carrying the same proof, in any interleaving, each
\* runs its own verify call and its own settle call(s), the response of each
\* is the outcome of its own calls, and a request that has not been
\* answered can take its next step whatever the state of the other.
C18_NoCrossRequestState ==
    \A t, u \in Tasks :
        (t # u /\ task[t].payment_data = task[u].payment_data) =>
            /\ RunsOwnCalls(t)
            /\ OwnOutcome(t)
            /\ task[t].pc # "done" => ENABLED TaskStep(t)

\* Two requests with the same proof: the second has been verified, settled
\* and answered by the handler while the first, whose settlement failed,
\* sleeps before its retry.
C18_Witness ==
    /\ task[1].payment_data = task[2].payment_data
    /\ task[1].pc = "sleep"
    /\ task[2].pc = "done"
    /\ Get(task[2].response).status = 200
    /\ Get(task[2].response).receipt # None
    /\ Len(task[1].verify_calls) = 1
    /\ Len(task[2].verify_calls) = 1
    /\ Len(task[2].settle_calls) = 1

(***************************************************************************)
(* Retries and timeouts within one request.                                *)
(***************************************************************************)
\* The network calls of the request so far, by destination.
RpcPosts == SelectSeq(outbound, LAMBDA p : p.to = "rpc")
SettlePosts == SelectSeq(outbound, LAMBDA p : p.to = "facilitator")

\* The request has decoded its proof, nothing has raised before the verify
\* call, and that call is behind it.
PastVerification ==
    /\ payment_payload # None
    /\ PreVerifyError(Get(payment_payload)) = None
    /\ pc # "verify"

\* C19: a request is verified exactly once; a simulate call that fails at
\* transport level, by timeout or otherwise, is not repeated and the
\* request ends as a 402; settlement alone is retried, once; and a settle
\* call that times out gives the same failure result, followed by the same
\* retry or the same 402, as any other transport failure.
C19_OnlySettlementRetried ==
    /\ Len(verify_calls) <= 1
    /\ Cardinality(Positions("verify")) = Len(verify_calls)
    /\ PastVerification => Len(verify_calls) = 1
    /\ Len(RpcPosts) <= 1
    /\ \A k \in 1..Len(RpcPosts) :
         RpcPosts[k].answer.kind = "transport" =>
           /\ RpcPosts[k].timeout > 0
           /\ ~verify_calls[1].result.isValid
           /\ settle_calls = <<>>
           /\ HandlerCalls = 0
           /\ pc = "done"
           /\ Get(response).status = 402
           /\ ChallengeError = <<RpcPosts[k].answer.cause>>
    /\ Len(SettlePosts) = Len(settle_calls)
    /\ Len(SettlePosts) <= 2
    /\ Cardinality(Positions("sleep")) <= 1
    /\ Len(SettlePosts) = 2 => Cardinality(Positions("sleep")) = 1
    /\ \A k \in 1..Len(SettlePosts) :
         SettlePosts[k].answer.kind = "transport" =>
           /\ SettlePosts[k].timeout > 0
           /\ settle_calls[k].result.isObj
           /\ ~settle_calls[k].result.success
           /\ settle_calls[k].result.error =
                <<<<"Facilitator request failed: ">> \o SettlePosts[k].answer.cause>>
           /\ HandlerCalls = 0 \/ (k = 1 /\ Len(SettlePosts) = 2)
           /\ Len(SettlePosts) = 1 => pc \in {"backoff", "retry"}
           /\ (k = 2 /\ Len(SettlePosts) = 2) =>
                /\ pc = "done"
                /\ Get(response).status = 402
                /\ ChallengeError = settle_calls[k].result.error

\* The simulate call answered, the first settle call timed out, the retry
\* was refused, and the request ended as a 402.
C19_Witness ==
    /\ Len(RpcPosts) = 1
    /\ Len(verify_calls) = 1
    /\ Len(SettlePosts) = 2
    /\ SettlePosts[1].answer.kind = "transport"
    /\ SettlePosts[1].answer.cause = <<"Read timed out">>
    /\ SettlePosts[2].answer.kind = "transport"
    /\ SettlePosts[2].answer.cause = <<"Connection refused">>
    /\ pc = "done"
    /\ Get(response).status = 402

(***************************************************************************)
(* settle_payment called directly.                                         *)
(***************************************************************************)
SettleCalls == {i \in 1..Len(calls) : calls[i].op = "settle"}

\* The call made one POST to `{facilitator_url}/settle` and none to the
\* chain RPC.
OnePostToFacilitator(c) ==
    /\ Len(c.posts) = 1
    /\ c.posts[1].method = "POST"
    /\ c.posts[1].url = facilitator_url \o <<"/settle">>
    /\ \A k \in 1..Len(c.posts) : c.posts[k].url # rpc_url

\* The call returned a result value, a failure unless the remote answered
\* 200 with a body that parses.
ReturnsResult(c) ==
    /\ c.raised = None
    /\ c.result # None
    /\ \A k \in 1..Len(c.posts) :
         (\/ c.posts[k].answer.kind = "transport"
          \/ c.posts[k].answer.status # "200"
          \/ ~c.posts[k].answer.json) => ReportsFailure(Get(c.result))

\* C20: every call of settle_payment makes exactly one POST, to
\* `{facilitator_url}/settle`, none to the chain RPC, and returns a result
\* value whatever the remote call comes to.
C20_OnePostNeverRaises ==
    \A i \in SettleCalls : OnePostToFacilitator(calls[i]) /\ ReturnsResult(calls[i])

\* The same for the calls whose payload is a JSON object.
C20_ForObjects ==
    \A i \in SettleCalls :
        calls[i].payment_payload.isObj =>
            OnePostToFacilitator(calls[i]) /\ ReturnsResult(calls[i])

\* No call of settle_payment raises, whatever its payload.
C20_NeverRaises ==
    \A i \in SettleCalls : ReturnsResult(calls[i])

(***************************************************************************)
(* The result of settle_payment, by the remote's answer.                   *)
(***************************************************************************)
\* The settle calls that reached the remote, and what it answered.
RemoteSettleCalls == {i \in SettleCalls : calls[i].posts # <<>>}
RemoteAnswer(c) == c.posts[1].answer

\* The result is {success: false, error: E}.
IsFailureWith(c, E) ==
    /\ c.raised = None
    /\ c.result # None
    /\ Get(c.result) = [isObj |-> TRUE, success |-> FALSE, error |-> <<E>>,
                        message |-> <<>>, txHash |-> <<>>, network |-> <<>>]

\* A 200 answer with a JSON body comes back as that body, and a transport
\* failure as "Facilitator request failed: <cause>".
OkAndTransportMapped(c) ==
    LET remote == RemoteAnswer(c)
    IN  /\ (remote.kind = "answer" /\ remote.status = "200" /\ remote.json) =>
             (c.raised = None /\ c.result = <<remote.body>>)
        /\ remote.kind = "transport" =>
             IsFailureWith(c, <<"Facilitator request failed: ">> \o remote.cause)

\* C21 as stated: a 200 answer is returned as the remote's JSON body; a
\* non-200 answer becomes {success: false, error: E}, E the body's error, or
\* its message, when the body is a JSON object, else "HTTP <code>: <body>";
\* a transport failure becomes "Facilitator request failed: <cause>".
C21_RemoteOutcomeMapped ==
    \A i \in RemoteSettleCalls :
        LET c == calls[i]
            remote == RemoteAnswer(c)
        IN  /\ OkAndTransportMapped(c)
            /\ (remote.kind = "answer" /\ remote.status # "200") =>
                 IF remote.json /\ remote.body.isObj
                 THEN \/ /\ remote.body.error # <<>>
                         /\ IsFailureWith(c, remote.body.error[1])
                      \/ /\ remote.body.error = <<>>
                         /\ remote.body.message # <<>>
                         /\ IsFailureWith(c, remote.body.message[1])
                 ELSE IsFailureWith(c, <<"HTTP ", remote.status, ": ">> \o remote.text)

\* C21, amended: as above, with E "Unknown error" when the JSON object has
\* neither error nor message, and with no more than the first 500
\* characters of a body that is no JSON object.
C21_RemoteOutcomeMappedWithin500 ==
    \A i \in RemoteSettleCalls :
        LET c == calls[i]
            remote == RemoteAnswer(c)
        IN  /\ OkAndTransportMapped(c)
            /\ (remote.kind = "answer" /\ remote.status # "200") =>
                 IF remote.json /\ remote.body.isObj
                 THEN IsFailureWith(c,
                          IF remote.body.error # <<>> THEN remote.body.error[1]
                          ELSE IF remote.body.message # <<>> THEN remote.body.message[1]
                          ELSE <<"Unknown error">>)
                 ELSE IsFailureWith(c,
                          <<"HTTP ", remote.status, ": ">>
                              \o (IF remote.textLength > 500 THEN <<"[:500]">> ELSE <<>>)
                              \o remote.text)

\* Two settle calls: a 409 whose body has an error and a message, then a 502
\* whose body is 501 characters of HTML.
C21_Witness ==
    /\ Len(calls) = 2
    /\ RemoteSettleCalls = {1, 2}
    /\ RemoteAnswer(calls[1]).status = "409"
    /\ Get(calls[1].result).error = <<<<"ALREADY_SETTLED">>>>
    /\ RemoteAnswer(calls[2]).status = "502"
    /\ RemoteAnswer(calls[2]).textLength = 501
    /\ Get(calls[2].result).error =
         <<<<"HTTP ", "502", ": ", "[:500]", "<html>", "Bad Gateway", "</html>">>>>

(***************************************************************************)
(* The results of verify_payment.                                          *)
(***************************************************************************)
\* The transaction string of the call does not decode: it is no base64, or
\* its bytes are no transaction.
Undecodable(c) ==
    /\ c.payment_payload.isObj
    /\ CarriedBlob(c) # None
    /\ \/ CarriedBlob(c)[1].kind = "badb64"
       \/ CarriedBlob(c)[1].kind = "bytes" /\ ~CarriedBlob(c)[1].tx.deserializes

HoldsValue(field) == field # <<>> /\ field[1].kind # "empty"

\* C23: verify_payment verifies the string of `transaction`, or else that
\* of `transactionBcsBase64`; when neither holds a non-empty value the
\* result is invalid with "Transaction not found in payment payload", and
\* no network call is made.
C23_TransactionField ==
    \A i \in VerifyCalls :
        LET c == calls[i]
            p == c.payment_payload
            read == IF HoldsValue(p.transaction) THEN p.transaction
                    ELSE p.transactionBcsBase64
        IN  p.isObj =>
              IF HoldsValue(read)
              THEN \E rpc \in DirectRpcAnswers :
                     /\ Get(c.result) = verify_transaction_on_chain(
                            read[1], c.payment_requirements, sdk_available, c.time, rpc)
                     /\ c.posts \in {<<>>, <<Post("rpc", rpc_url, SimulateTimeout, rpc)>>}
              ELSE /\ Get(c.result) =
                        Invalid(<<"Transaction not found in payment payload">>)
                   /\ c.posts = <<>>

\* Two calls with one payload: `transaction` is the empty string and
\* `transactionBcsBase64` a transfer to another account, which is what the
\* result speaks of.
C23_Witness ==
    /\ sdk_available
    /\ Len(calls) = 2
    /\ \A i \in {1, 2} :
         /\ calls[i].op = "verify"
         /\ calls[i].payment_payload.transaction = <<EmptyBlob>>
         /\ calls[i].payment_payload.transactionBcsBase64 = <<MisdirectedBlob>>
         /\ RejectedFor(calls[i], <<"Recipient mismatch: expected ">>)

(***************************************************************************)
(* Verification without the SDK.                                           *)
(***************************************************************************)
\* The verify calls that reach the choice of path: the payload is a dict
\* and its transaction string is base64.
DecodingCalls ==
    {i \in VerifyCalls : /\ calls[i].payment_payload.isObj
                         /\ CarriedBlob(calls[i]) # None
                         /\ CarriedBlob(calls[i])[1].kind = "bytes"}

\* C24: without the SDK, verify posts the transaction to the RPC endpoint
\* once; an error answer, a non-200 status and a transport failure give an
\* invalid result with the error text; a simulation result without a sender
\* gives an invalid result, and one with a sender a valid result whose
\* payer is that sender.
C24_RpcFallback ==
    ~sdk_available =>
      \A i \in DecodingCalls :
        LET c == calls[i]
            rpc == c.posts[1].answer
        IN  /\ Len(c.posts) = 1
            /\ c.posts[1].method = "POST"
            /\ c.posts[1].url = rpc_url
            /\ rpc.kind = "transport" => Get(c.result) = Invalid(rpc.cause)
            /\ rpc.kind = "status" => Get(c.result) = Invalid(<<"HTTP ", rpc.status>>)
            /\ (rpc.kind = "error" /\ rpc.error # None) =>
                 Get(c.result) = Invalid(rpc.error[1])
            /\ rpc.kind = "result" =>
                 IF ~rpc.result.isObj THEN ~Get(c.result).isValid
                 ELSE IF rpc.result.sender # None
                 THEN Get(c.result) = Valid(rpc.result.sender[1])
                 ELSE IF rpc.result.txSender # None
                 THEN Get(c.result) = Valid(rpc.result.txSender[1])
                 ELSE /\ ~Get(c.result).isValid
                      /\ Get(c.result).invalidReason # None

\* Without the SDK, a first call whose simulation got a 503 and a second
\* whose simulation named the sender.
C24_Witness ==
    /\ ~sdk_available
    /\ Len(calls) = 2
    /\ DecodingCalls = {1, 2}
    /\ calls[1].posts[1].answer.kind = "status"
    /\ ~Get(calls[1].result).isValid
    /\ calls[2].posts[1].answer.kind = "result"
    /\ Get(calls[2].result).isValid
    /\ Get(calls[2].result).payer = <<Payer>>

(***************************************************************************)
(* Transactions that are no coin transfer.                                 *)
(***************************************************************************)
\* The decoded transaction calls no function that is taken for a coin
\* transfer: it has no entry function, or one whose name contains neither
\* coin::transfer nor aptos_account::transfer.
CallsNoTransfer(c) ==
    LET tx == DecodedTransaction(c)
    IN  \/ ~tx.hasValue
        \/ ~tx.hasFunction
        \/ /\ ~Contains(tx.function, <<"coin", "::", "transfer">>)
           /\ ~Contains(tx.function, <<"aptos_account", "::", "transfer">>)

\* C25: on the structured path a transaction that calls no coin-transfer
\* function is valid, with its sender as payer, whenever its expiration is
\* in the window or absent, whatever its arguments are.
C25_OtherFunctionsAccepted ==
    sdk_available =>
      \A i \in ServerVerifyCalls :
        LET c == calls[i]
        IN  (CarriesTransaction(c) /\ CallsNoTransfer(c) /\ InExpiryWindow(c)) =>
              Get(c.result) = Valid(DecodedTransaction(c).sender)

\* A call of another function whose arguments name another account and an
\* amount of 1, expiring in the window: valid.
C25_Witness ==
    /\ sdk_available
    /\ Len(calls) = 1
    /\ 1 \in ServerVerifyCalls
    /\ CarriesTransaction(calls[1])
    /\ DecodedTransaction(calls[1]).function = OtherFunction
    /\ DecodedTransaction(calls[1]).arguments = <<AddressArg("0xb0b"), IntArg(1)>>
    /\ DecodedTransaction(calls[1]).expiration = <<1003>>
    /\ Get(calls[1].result).isValid
    /\ Get(calls[1].result).payer = <<Payer>>

(***************************************************************************)
(* The route registry while requests are served.                           *)
(***************************************************************************)
\* C26: no step of the middleware adds, removes or replaces an entry of the
\* routes map or changes a field of a RouteConfig.
C26_RegistryReadOnly == [][routes' = routes]_vars

\* A POST that matched through the catch-all entry of a registry of two
\* entries has been answered with a 402.
C26_Witness ==
    /\ pc = "done"
    /\ Cardinality(DOMAIN routes) = 2
    /\ WildcardKey \in DOMAIN routes
    /\ RouteKey(Upper(Get(request).method), NormalizePath(Get(request).path))
         \notin DOMAIN routes
    /\ response # None
    /\ Get(response).status = 402
    /\ Get(Get(response).challenge).accepts # <<>>

(***************************************************************************)
(* Cancellation and the settle call.                                       *)
(***************************************************************************)
\* A settle call has been posted and has not returned.
SettleInFlight == task.issued > Len(task.results)

\* C27: a settle call that has been issued is not aborted by the
\* cancellation of its request: no request ends, cancelled or answered,
\* with a settle call in flight, and every call in flight returns.
C27_SettleRunsToCompletion ==
    /\ [](task.pc \in {"cancelled", "done"} => ~SettleInFlight)
    /\ [](SettleInFlight => task.pc = "settle_issued")
    /\ (SettleInFlight ~> ~SettleInFlight)

\* The request was cancelled while its first settle call was in flight; the
\* call returned a success all the same, and the task was cancelled at the
\* await of call_next.
C27_Witness ==
    /\ task.pc = "cancelled"
    /\ task.cancel_requested
    /\ task.issued = 1
    /\ Len(task.results) = 1
    /\ ReportsSuccess(task.results[1])

(***************************************************************************)
(* The states a request ends in.                                           *)
(***************************************************************************)
\* dispatch has returned or raised.
Ended == pc = "done"

\* The handler raised: out of dispatch, or into its except clauses.
HandlerHasRaised ==
    \/ raised # None
    \/ /\ IsChallenge
       /\ IsSome(ChallengeError)
       /\ EndsWith(Get(ChallengeError), <<"handler failed">>)

\* Forwarded without a payment check; the response is the handler's.
UNPROTECTED ==
    /\ requirements = None
    /\ trace = <<"call_next">>
    /\ IsSome(response)
    /\ Get(response) \in HandlerResponses

\* 402 with the requirements and no error.
PROTECTED_NO_PROOF ==
    /\ IsChallenge
    /\ ChallengeError = None
    /\ CarriesNoProof
    /\ trace = <<>>

\* The header is no base64 of JSON; 402 with the decode failure as error.
PROTECTED_INVALID_HEADER ==
    /\ IsChallenge
    /\ ~CarriesNoProof
    /\ ProofHeaderRead.enc # "json"
    /\ IsSome(ChallengeError)
    /\ StartsWith(Get(ChallengeError),
                  <<"Invalid payment header: ", "Failed to decode payment header: ">>)
    /\ trace = <<>>

\* Decoded, and verification returned isValid = false; 402 with the
\* invalidReason as error.
PROTECTED_VERIFY_FAILED ==
    /\ IsChallenge
    /\ trace = <<"verify">>
    /\ ~verify_calls[1].result.isValid
    /\ ChallengeError = InvalidReasonOf(verify_calls[1].result)

\* Verified, and settlement failed twice; 402 with the settlement error.
PROTECTED_SETTLE_FAILED ==
    /\ IsChallenge
    /\ trace = <<"verify", "settle", "sleep", "settle">>
    /\ verify_calls[1].result.isValid
    /\ ReportsFailure(settle_calls[1].result)
    /\ ReportsFailure(settle_calls[2].result)
    /\ ChallengeError = SettleErrorOf(settle_calls[2].result)

\* Settled, forwarded, and answered with the handler's response and the
\* receipt of the settlement.
PROTECTED_OK ==
    /\ requirements # None
    /\ settle_calls # <<>>
    /\ ReportsSuccess(settle_calls[Len(settle_calls)].result)
    /\ trace[Len(trace)] = "call_next"
    /\ IsSome(response)
    /\ Get(response).source = "handler"
    /\ Get(response).receipt = Some(EncodeReceipt(settle_calls[Len(settle_calls)].result))

\* The seventh end: an exception caught by `except Exception` (lines
\* 373-382) while the decoded document or a settle result is read; 402 with
\* the exception text.
PROTECTED_ERROR ==
    /\ IsChallenge
    /\ IsSome(ChallengeError)
    /\ StartsWith(Get(ChallengeError), <<"Payment verification error: ">>)
    /\ \/ trace = <<>> /\ IsSome(payment_payload)
                       /\ IsSome(PreVerifyError(Get(payment_payload)))
       \/ settle_calls # <<>> /\ ~settle_calls[Len(settle_calls)].result.isObj

\* How many of the six states of the state machine the request is in.
EndStatesOfSix ==
    Cardinality({ i \in 1..6 :
        << UNPROTECTED, PROTECTED_NO_PROOF, PROTECTED_INVALID_HEADER,
           PROTECTED_VERIFY_FAILED, PROTECTED_SETTLE_FAILED, PROTECTED_OK >>[i] })

\* C28 as stated: every request comes to an end, and one whose handler
\* returned has a response and is in exactly one of the six states.
C28_EndsInOneOfSix ==
    /\ (pc = "dispatch" ~> Ended)
    /\ []((Ended /\ ~HandlerHasRaised) => (IsSome(response) /\ EndStatesOfSix = 1))

\* C28, amended: every request comes to an end, and one whose handler
\* returned has a response and is in exactly one of the six states or of
\* the 402 for a caught exception.
C28_EndsInOneOfSeven ==
    /\ (pc = "dispatch" ~> Ended)
    /\ []((Ended /\ ~HandlerHasRaised) =>
            /\ IsSome(response)
            /\ EndStatesOfSix + (IF PROTECTED_ERROR THEN 1 ELSE 0) = 1)

\* A request that settled at the retry and was answered by the handler.
C28_Witness ==
    /\ Ended
    /\ PROTECTED_OK
    /\ trace = <<"verify", "settle", "sleep", "settle", "call_next">>

(***************************************************************************)
(* The requirements the middleware produces.                               *)
(***************************************************************************)
\* The invariant of the data model on a PaymentRequirements object.
WellFormedRequirements(r) ==
    /\ AllDigits(r.max_amount_required)
    /\ r.pay_to # ""
    /\ r.asset # <<>>

\* C29: every PaymentRequirements the middleware builds, sends in a 402 or
\* passes to the facilitator has a maxAmountRequired of decimal digits only
\* and a non-empty payTo and asset.
C29_RequirementsWellFormed ==
    /\ IsSome(requirements) => WellFormedRequirements(Get(requirements))
    /\ \A i \in 1..Len(verify_calls) :
         /\ AllDigits(verify_calls[i].payment_requirements.maxAmountRequired)
         /\ verify_calls[i].payment_requirements.payTo # ""
         /\ verify_calls[i].payment_requirements.asset # <<>>

(***************************************************************************)
(* After a settlement that succeeded.                                      *)
(***************************************************************************)
\* One of the settle calls of the request returned success.
HasSettled ==
    \E i \in 1..Len(settle_calls) : ReportsSuccess(settle_calls[i].result)

\* C30: a request that ends after one of its settle calls succeeded is not
\* answered with a 402: its caller gets the handler's response with the
\* X-PAYMENT-RESPONSE header, whether the handler returned or raised.
C30_No402AfterSettlement ==
    (Ended /\ HasSettled) =>
        /\ ~IsChallenge
        /\ IsSome(response)
        /\ Get(response).source = "handler"
        /\ IsSome(Get(response).receipt)

(***************************************************************************)
(* Coin transfers on the structured path.                                  *)
(***************************************************************************)
\* The decoded transaction calls a coin-transfer function, whatever its
\* arguments are.
CallsTransfer(c) ==
    /\ CarriesTransaction(c)
    /\ DecodedTransaction(c).hasValue
    /\ DecodedTransaction(c).hasFunction
    /\ \/ Contains(DecodedTransaction(c).function, <<"coin", "::", "transfer">>)
       \/ Contains(DecodedTransaction(c).function, <<"aptos_account", "::", "transfer">>)

\* C31: on the structured path a call of a coin-transfer function, with
\* no, one, two or more arguments, is valid only if its decoded recipient is
\* the payTo and its decoded amount is at least maxAmountRequired.
C31_TransferValidOnlyIfPaid ==
    sdk_available =>
      \A i \in ServerVerifyCalls :
        LET c == calls[i]
        IN  (CallsTransfer(c) /\ Get(c.result).isValid) =>
              /\ Len(DecodedTransaction(c).arguments) >= 2
              /\ RecipientIsPayee(c)
              /\ AmountParses(c)
              /\ DecodedAmount(c) >= RequiredAmount(c)

(***************************************************************************)
(* What is settled is what was verified.                                   *)
(***************************************************************************)
\* C32: every settle call of a request, the first and the retry, has the
\* protocol version, the payload body and the requirements of the request's
\* verify call, and these are still what the locals of dispatch hold.
C32_SettledIsVerified ==
    /\ \A i \in 1..Len(settle_calls) :
         /\ Len(verify_calls) = 1
         /\ settle_calls[i].x402_version = verify_calls[1].x402_version
         /\ settle_calls[i].payment_payload = verify_calls[1].payment_payload
         /\ settle_calls[i].payment_requirements = verify_calls[1].payment_requirements
    /\ verify_calls # <<>> =>
         /\ verify_calls[1].x402_version = VersionOf(Get(payment_payload))
         /\ verify_calls[1].payment_payload = PaymentData
         /\ verify_calls[1].payment_requirements = PaymentReqsDict

\* A proof nested under `payload`, verified, settled, and settled again at
\* the retry.
C32_Witness ==
    /\ Len(verify_calls) = 1
    /\ Len(settle_calls) = 2
    /\ IsSome(Get(payment_payload).payload)
    /\ settle_calls[2].payment_payload = Get(Get(payment_payload).payload)
    /\ settle_calls[2].payment_payload.transaction = Some(PaidBlob)

(***************************************************************************)
(* What the result of a verification does not depend on.                   *)
(***************************************************************************)
\* Two calls carry the same transaction, are made at the same time and get
\* the same answers from the node.
SameTransaction(c, d) ==
    /\ c.payment_payload.isObj = d.payment_payload.isObj
    /\ c.payment_payload.transaction = d.payment_payload.transaction
    /\ c.payment_payload.transactionBcsBase64 = d.payment_payload.transactionBcsBase64
    /\ c.time = d.time
    /\ c.posts = d.posts

\* The requirements of two calls are the same but for asset and network.
SameButAssetAndNetwork(c, d) ==
    [c.payment_requirements EXCEPT !.asset = d.payment_requirements.asset,
                                   !.network = d.payment_requirements.network]
        = d.payment_requirements

\* C33: two verify calls that differ only in the signature fields, in the
\* scheme and network the payload declares, and in the asset and network of
\* the requirements return the same result.
C33_SignatureSchemeAssetIgnored ==
    \A i, j \in VerifyCalls :
        (SameTransaction(calls[i], calls[j]) /\ SameButAssetAndNetwork(calls[i], calls[j]))
            => calls[i].result = calls[j].result

\* A payment verified on the structured path with its signature, scheme and
\* network, and verified again without a signature, with nothing declared,
\* for another asset on another network: valid both times.
C33_Witness ==
    /\ sdk_available
    /\ Len(calls) = 2
    /\ SameTransaction(calls[1], calls[2])
    /\ calls[1].payment_payload.signature = Some(SignatureBlob)
    /\ calls[1].payment_payload.scheme = Some("exact")
    /\ calls[2].payment_payload.signature = None
    /\ calls[2].payment_payload.signatureBcsBase64 = None
    /\ calls[2].payment_payload.scheme = None
    /\ calls[2].payment_payload.network = None
    /\ calls[1].payment_requirements.network = "movement"
    /\ calls[2].payment_requirements.network = "movement-testnet"
    /\ calls[1].payment_requirements.asset # calls[2].payment_requirements.asset
    /\ Get(calls[1].result).isValid
    /\ Get(calls[2].result).isValid

(***************************************************************************)
(* The fallback path and the requirements.                                 *)
(***************************************************************************)
\* The requirements of two calls are the same but for payTo,
\* maxAmountRequired and maxTimeoutSeconds.
SameButPayeeAmountTimeout(c, d) ==
    [c.payment_requirements EXCEPT
        !.payTo = d.payment_requirements.payTo,
        !.maxAmountRequired = d.payment_requirements.maxAmountRequired,
        !.maxTimeoutSeconds = d.payment_requirements.maxTimeoutSeconds]
        = d.payment_requirements

\* C34: on the fallback path the result follows from the answer of the
\* simulation alone: two calls with the same transaction and the same
\* answer have the same result whatever payTo, maxAmountRequired and
\* maxTimeoutSeconds their requirements hold, a success with a sender being
\* valid and every other answer invalid.
C34_FallbackIgnoresRequirements ==
    ~sdk_available =>
      /\ \A i, j \in VerifyCalls :
           (/\ SameTransaction(calls[i], calls[j])
            /\ SameButPayeeAmountTimeout(calls[i], calls[j]))
               => calls[i].result = calls[j].result
      /\ \A i \in VerifyCalls :
           (calls[i].raised = None /\ Len(calls[i].posts) = 1) =>
             LET answer == calls[i].posts[1].answer
                 sender == IF answer.result.sender # None THEN answer.result.sender
                           ELSE answer.result.txSender
             IN  Get(calls[i].result).isValid <=>
                   (answer.kind = "result" /\ answer.result.isObj /\ sender # None)

\* Without the SDK, the transfer to 0xb0b of 100 is valid for the
\* requirements of the agent (payTo 0xA11CE, amount 100) and for those
\* naming 0xb0b and 150, and the transfer expiring in 600 seconds is valid
\* under a timeout of 2.
C34_Witness ==
    /\ ~sdk_available
    /\ Len(calls) = 2
    /\ SameTransaction(calls[1], calls[2])
    /\ calls[1].payment_payload.transaction = Some(MisdirectedBlob)
    /\ calls[1].payment_requirements.payTo = PayTo
    /\ calls[1].payment_requirements.maxTimeoutSeconds = 2
    /\ calls[2].payment_requirements.payTo = "0xb0b"
    /\ calls[2].payment_requirements.maxAmountRequired = <<"1", "5", "0">>
    /\ Get(calls[1].result).isValid
    /\ Get(calls[2].result).isValid

(***************************************************************************)
(* The order of the checks on the structured path.                         *)
(***************************************************************************)
\* The first of the four checks that a decoded transfer fails at the time of
\* the call, as the prefix of its reason; <<>> when it fails none.
FirstFailingCheck(c) ==
    LET E == DecodedTransaction(c).expiration
        T == c.time
        M == c.payment_requirements.maxTimeoutSeconds
    IN  IF E # None /\ E[1] < T THEN <<"Transaction has expired">>
        ELSE IF E # None /\ E[1] > T + M
        THEN <<"Transaction expiration exceeds maximum timeout">>
        ELSE IF ~RecipientIsPayee(c) THEN <<"Recipient mismatch: expected ">>
        ELSE IF DecodedAmount(c) < RequiredAmount(c)
        THEN <<"Amount insufficient: required ">>
        ELSE <<>>

\* C35: on the structured path a transfer that fails one or several of the
\* checks is rejected with the reason of the first it fails in the order
\* expired, expiration beyond the timeout, recipient, amount; one that
\* fails none is valid.
C35_ChecksInOrder ==
    sdk_available =>
      \A i \in ServerVerifyCalls :
        LET c == calls[i]
        IN  (CarriesTransfer(c) /\ AmountParses(c)) =>
              IF FirstFailingCheck(c) = <<>> THEN Get(c.result).isValid
              ELSE RejectedFor(c, FirstFailingCheck(c))

\* A transfer of 99 to 0xb0b that expired at 1001, verified at 1002: it
\* fails three checks and is rejected as expired.
C35_Witness ==
    /\ sdk_available
    /\ Len(calls) = 1
    /\ 1 \in ServerVerifyCalls
    /\ CarriesTransfer(calls[1])
    /\ calls[1].time = 1002
    /\ DecodedTransaction(calls[1]).expiration = <<1001>>
    /\ DecodedRecipient(calls[1]) = "0xb0b"
    /\ DecodedAmount(calls[1]) = 99
    /\ Get(calls[1].result) = Invalid(<<"Transaction has expired">>)

(***************************************************************************)
(* The attempt that decides.                                               *)
(***************************************************************************)
\* C36: a request that made two settle attempts ends by the second: if the
\* retry succeeded the handler was invoked, and the response it returned
\* carries the receipt of the retry's result, not of the first; if the retry
\* failed the response is a 402 with the error of the second attempt and the
\* handler was not invoked.
C36_LastAttemptDecides ==
    (Ended /\ Len(settle_calls) = 2 /\ settle_calls[2].result.isObj) =>
        IF ReportsSuccess(settle_calls[2].result)
        THEN /\ HandlerCalls = 1
             /\ (IsSome(response) /\ Get(response).source = "handler") =>
                  /\ Get(response).receipt = Some(EncodeReceipt(settle_calls[2].result))
                  /\ Get(response).receipt # Some(EncodeReceipt(settle_calls[1].result))
        ELSE /\ IsChallenge
             /\ HandlerCalls = 0
             /\ ChallengeError = SettleErrorOf(settle_calls[2].result)

\* The first attempt failed with an error, the retry succeeded, and the
\* handler's response carries the retry's receipt.
C36_Witness ==
    /\ Ended
    /\ Len(settle_calls) = 2
    /\ settle_calls[1].result.error = Some(<<"INSUFFICIENT_BALANCE">>)
    /\ ReportsSuccess(settle_calls[2].result)
    /\ IsSome(response)
    /\ Get(response).source = "handler"
    /\ Get(response).receipt = Some(EncodeReceipt(settle_calls[2].result))

(***************************************************************************)
(* A 200 answer that reports no success.                                   *)
(***************************************************************************)
\* The k-th settle call of the request was answered 200 with a JSON object
\* whose `success` is missing or false.
AnsweredOkWithoutSuccess(k) ==
    LET answer == SettlePosts[k].answer
    IN  /\ answer.kind = "answer"
        /\ answer.status = "200"
        /\ answer.json
        /\ answer.body.isObj
        /\ ~answer.body.success

\* C37: a settle call answered 200 with a JSON object that reports no
\* success is a failed settlement: after the first attempt the request goes
\* on to the retry and does not end before it, and after the retry it ends
\* as a 402 whose error is the body's error, or "Settlement failed" when the
\* body has none, with the handler not invoked.
C37_OkWithoutSuccessFails ==
    \A k \in 1..Len(settle_calls) :
        AnsweredOkWithoutSuccess(k) =>
            /\ ReportsFailure(settle_calls[k].result)
            /\ HandlerCalls = 0 \/ Len(settle_calls) > k
            /\ k = 1 => (pc \in {"backoff", "retry"} \/ Len(settle_calls) = 2)
            /\ k = 2 =>
                 /\ Ended
                 /\ IsChallenge
                 /\ HandlerCalls = 0
                 /\ ChallengeError =
                      IF SettlePosts[2].answer.body.error # None
                      THEN SettlePosts[2].answer.body.error
                      ELSE Some(<<"Settlement failed">>)

\* Both attempts were answered 200 with {success: false} and no error: the
\* request ended as a 402 with "Settlement failed".
C37_Witness ==
    /\ Len(settle_calls) = 2
    /\ AnsweredOkWithoutSuccess(1)
    /\ AnsweredOkWithoutSuccess(2)
    /\ SettlePosts[1].answer = SettlePosts[2].answer
    /\ SettlePosts[2].answer.body.error = None
    /\ IsChallenge
    /\ ChallengeError = Some(<<"Settlement failed">>)
    /\ trace = <<"verify", "settle", "sleep", "settle">>

(***************************************************************************)
(* C38: the payload body is the value under `payload` when the decoded     *)
(* header has that key and the header itself otherwise, and a proof sent   *)
(* nested and the same proof sent at top level are verified and settled    *)
(* alike and answered alike.                                               *)
(***************************************************************************)
ShapeDone(s) == task[s].pc = "done"

\* The payload body holds the transaction and signature of proof p.
Carries(data, p) ==
    /\ data.isObj
    /\ data.transaction = p[1]
    /\ data.transactionBcsBase64 = p[2]
    /\ data.signature = p[3]

SameOutcome(a, b) ==
    /\ a.verify_result = b.verify_result
    /\ a.settle_results = b.settle_results
    /\ a.response = b.response

\* C38: whatever the shape, verify and settle are given the proof the
\* client sent (the object under `payload`, which has no key of the header,
\* or the header itself, which keeps its own), a transaction at top level
\* beside a `payload` key counts for nothing, and any two shapes of one
\* proof get the same verify result, settle results and response.
C38_PayloadShapesAgree ==
    /\ \A s \in Shapes :
          ShapeDone(s) =>
              /\ Carries(task[s].payment_data, Get(arguments).proof)
              /\ ("scheme" \in DOMAIN task[s].payment_data) = (s = "flat")
    /\ \A s, t \in Shapes :
          ShapeDone(s) /\ ShapeDone(t) => SameOutcome(task[s], task[t])

\* A paying proof was sent nested and at top level, and both requests were
\* settled and answered by the handler with a receipt.
C38_Witness ==
    /\ ShapeDone("nested") /\ ShapeDone("flat")
    /\ Get(arguments).proof[1] = Some(PaidBlob)
    /\ Len(task["flat"].settle_results) = 2
    /\ Get(task["flat"].response).status = 200
    /\ IsSome(Get(task["nested"].response).receipt)

(***************************************************************************)
(* C39: the proof is read from x-payment, and from x-402 only when         *)
(* x-payment is absent or empty.                                           *)
(***************************************************************************)
\* Header n of the request is there and is not the empty string.
Sent(n) ==
    /\ Get(request).headers[n] # None
    /\ Get(Get(request).headers[n]).enc # "empty"

SentHeader(n) == Get(Get(request).headers[n])

\* C39: once dispatch is past the header of a protected request: with a
\* non-empty x-payment the decoded proof is the document of x-payment, and
\* an x-payment that does not decode ends the request as the 402 of an
\* invalid header with no verify call, whatever x-402 holds; x-402 is the
\* proof only when x-payment is absent or empty; with neither header the
\* request is answered as one without a proof, by the 402 that carries no
\* error.
C39_PaymentHeaderFirst ==
    (OnProtectedRoute /\ pc \notin {"idle", "dispatch"}) =>
        /\ Sent("x-payment") =>
              /\ IsSome(payment_payload) =>
                    /\ SentHeader("x-payment").enc = "json"
                    /\ Get(payment_payload) = SentHeader("x-payment").doc
              /\ SentHeader("x-payment").enc # "json" =>
                    /\ pc = "done"
                    /\ IsChallenge
                    /\ IsSome(ChallengeError)
                    /\ Get(ChallengeError)[1] = "Invalid payment header: "
                    /\ verify_calls = <<>>
                    /\ payment_payload = None
        /\ (~Sent("x-payment") /\ Sent("x-402")) =>
              /\ IsSome(payment_payload) =>
                    Get(payment_payload) = SentHeader("x-402").doc
              /\ SentHeader("x-402").enc = "json" => IsSome(payment_payload)
        /\ (~Sent("x-payment") /\ ~Sent("x-402")) =>
              /\ pc = "done"
              /\ IsChallenge
              /\ ChallengeError = None
              /\ payment_payload = None
              /\ trace = <<>>

\* A request with an x-payment that is no JSON and a paying proof in x-402
\* was answered by the 402 of an invalid header.
C39_Witness ==
    /\ OnProtectedRoute
    /\ pc = "done"
    /\ Sent("x-payment") /\ Sent("x-402")
    /\ SentHeader("x-payment").enc = "not_json"
    /\ SentHeader("x-402") = ProofHeader(PaidBlob)
    /\ IsChallenge
    /\ verify_calls = <<>>
====
